---- MODULE Spec2Model ----
(***************************************************************************)
(* The function graph of libeir_ir (blocks, values, edge sets), the        *)
(* builder operations that mutate it, the traversals of block_graph.rs,    *)
(* and the compilation pipeline of compiler/src/ir/mod.rs (from_parsed).   *)
(***************************************************************************)
EXTENDS Integers, Sequences, FiniteSets, TLC

\* Number of builder calls made on the function under construction.
MaxSteps == 5

VARIABLES
    fun,    \* the Function under construction (fun/mod.rs, struct Function)
    last,   \* the last builder call: its name, its block, what it returned,
            \* and the successors and op the block had before the call
    steps,  \* number of builder calls so far
    pipe,   \* the run of from_parsed: its position, the module, the scope
            \* tracker, the lambda collector and the passes run so far
    vm,     \* the run of one call of the shadowing test module
    lir,    \* a lowered function going through the LIR passes
    fmt,    \* a BufferTextFormatter and the calls made on it
    evl,    \* an expression of the preprocessor and its evaluation
    prs     \* the outcome of a parse and what to_parse_result makes of it

vars == <<fun, last, steps, pipe, vm, lir, fmt, evl, prs>>

\* What the builder calls, from_parsed, the test calls, the LIR passes, the
\* formatter calls, the evaluation and to_parse_result each leave alone.
beside_builder == <<pipe, vm, lir, fmt, evl, prs>>

beside_pipe == <<fun, last, steps, vm, lir, fmt, evl, prs>>

beside_vm == <<fun, last, steps, pipe, lir, fmt, evl, prs>>

beside_lir == <<fun, last, steps, pipe, vm, fmt, evl, prs>>

beside_fmt == <<fun, last, steps, pipe, vm, lir, evl, prs>>

beside_evl == <<fun, last, steps, pipe, vm, lir, fmt, prs>>

beside_prs == <<fun, last, steps, pipe, vm, lir, fmt, evl>>

----------------------------------------------------------------------------
\* Option<T>: None is the empty sequence, Some(x) the one-element sequence.
None == <<>>

Some(x) == <<x>>

\* cranelift_entity::PrimaryMap: dense keys 0 .. len-1, push only.
PrimaryMap_new == [i \in {} |-> i]

PrimaryMap_len(m) == Cardinality(DOMAIN m)

PrimaryMap_keys(m) == DOMAIN m

PrimaryMap_push(m, x) ==
    [i \in 0..PrimaryMap_len(m) |-> IF i < PrimaryMap_len(m) THEN m[i] ELSE x]

\* Elements of a sequence, and the sequence without its last element.
Range(s) == {s[i] : i \in 1..Len(s)}

Front(s) == SubSeq(s, 1, Len(s) - 1)

----------------------------------------------------------------------------
\* The pooled set of blocks (PooledEntitySet<Block>), iterated through
\* cranelift_bforest::SetIter: the keys are kept, and yielded, in ascending
\* order of the handle.  A set is the sequence of its keys in that order.
PooledEntitySet_new == <<>>

PooledEntitySet_contains(set, key) == \E i \in 1..Len(set) : set[i] = key

PooledEntitySet_size(set) == Len(set)

\* Faulty variant: the key is inserted without looking whether the set holds it
PooledEntitySet_insert_duplicating(set, key) ==
    LET below == Cardinality({i \in 1..Len(set) : set[i] < key})
    IN  SubSeq(set, 1, below) \o <<key>> \o SubSeq(set, below + 1, Len(set))

\* Faulty variant: the key is appended, so that iteration follows insertion order
PooledEntitySet_insert_appending(set, key) ==
    IF PooledEntitySet_contains(set, key) THEN set ELSE Append(set, key)

PooledEntitySet_insert(set, key) ==
    IF PooledEntitySet_contains(set, key)
    THEN set
    ELSE LET below == Cardinality({i \in 1..Len(set) : set[i] < key})
         IN  SubSeq(set, 1, below) \o <<key>> \o SubSeq(set, below + 1, Len(set))

PooledEntitySet_remove(set, key) ==
    LET keep == {i \in 1..Len(set) : set[i] # key}
        F[n \in 0..Len(set)] ==
            IF n = 0 THEN <<>>
            ELSE IF n \in keep THEN Append(F[n - 1], set[n]) ELSE F[n - 1]
    IN  F[Len(set)]

PooledEntitySet_iter(set) == set

----------------------------------------------------------------------------
\* enum ValueType
Arg(block) == [tag |-> "Arg", ref |-> block]

Block(block) == [tag |-> "Block", ref |-> block]

Constant(con) == [tag |-> "Constant", ref |-> con]

\* ValueType::Alias: a value replaced by another one.
Alias(value) == [tag |-> "Alias", ref |-> value]

\* Function::new
Function_new ==
    [ blocks          |-> PrimaryMap_new,
      values          |-> PrimaryMap_new,
      entry_block     |-> None,
      constant_values |-> {},
      block_values    |-> PrimaryMap_new ]

\* The BlockData and the self-reference ValueData block_insert pushes.
BlockData_new(predecessors, successors) ==
    [ arguments    |-> <<>>,
      op           |-> None,
      reads        |-> <<>>,
      predecessors |-> predecessors,
      successors   |-> successors ]

block_values_insert(block_values, block, value) ==
    [b \in DOMAIN block_values \cup {block} |->
        IF b = block THEN value ELSE block_values[b]]

\* Faulty variant: the successor set of the new block is not empty
block_insert_stale_successors(f) ==
    LET block == PrimaryMap_len(f.blocks)
        value == PrimaryMap_len(f.values)
    IN  [ fun |-> [f EXCEPT
                !.blocks = PrimaryMap_push(f.blocks,
                    BlockData_new(PooledEntitySet_new, <<block>>)),
                !.values = PrimaryMap_push(f.values, [kind |-> Block(block)]),
                !.block_values = block_values_insert(f.block_values, block, value)],
          ret |-> block ]

\* Faulty variant: the predecessor set of the new block is not empty
block_insert_stale_predecessors(f) ==
    LET block == PrimaryMap_len(f.blocks)
        value == PrimaryMap_len(f.values)
    IN  [ fun |-> [f EXCEPT
                !.blocks = PrimaryMap_push(f.blocks,
                    BlockData_new(<<block>>, PooledEntitySet_new)),
                !.values = PrimaryMap_push(f.values, [kind |-> Block(block)]),
                !.block_values = block_values_insert(f.block_values, block, value)],
          ret |-> block ]

\* Faulty variant: the last block's slot is reused instead of a new one being pushed
block_insert_recycling(f) ==
    LET block == IF PrimaryMap_len(f.blocks) = 0 THEN 0 ELSE PrimaryMap_len(f.blocks) - 1
        value == PrimaryMap_len(f.values)
    IN  [ fun |-> [f EXCEPT
                !.blocks = [b \in DOMAIN f.blocks \cup {block} |->
                    IF b = block
                    THEN BlockData_new(PooledEntitySet_new, PooledEntitySet_new)
                    ELSE f.blocks[b]],
                !.values = PrimaryMap_push(f.values, [kind |-> Block(block)]),
                !.block_values = block_values_insert(f.block_values, block, value)],
          ret |-> block ]

\* Faulty variant: the block is not recorded in block_values
block_insert_unrecorded(f) ==
    LET block == PrimaryMap_len(f.blocks)
    IN  [ fun |-> [f EXCEPT
                !.blocks = PrimaryMap_push(f.blocks,
                    BlockData_new(PooledEntitySet_new, PooledEntitySet_new)),
                !.values = PrimaryMap_push(f.values, [kind |-> Block(block)])],
          ret |-> block ]

\* Function::block_insert: returns the new function and the new block
block_insert(f) ==
    LET block == PrimaryMap_len(f.blocks)
        value == PrimaryMap_len(f.values)
    IN  [ fun |-> [f EXCEPT
                !.blocks = PrimaryMap_push(f.blocks,
                    BlockData_new(PooledEntitySet_new, PooledEntitySet_new)),
                !.values = PrimaryMap_push(f.values, [kind |-> Block(block)]),
                !.block_values = block_values_insert(f.block_values, block, value)],
          ret |-> block ]

\* Faulty variant: the new argument is put in front of the block's argument list
block_arg_insert_prepending(f, block) ==
    LET val == PrimaryMap_len(f.values)
    IN  [ fun |-> [f EXCEPT
                !.values = PrimaryMap_push(f.values, [kind |-> Arg(block)]),
                !.blocks[block].arguments = <<val>> \o @],
          ret |-> val ]

\* Function::block_arg_insert: returns the new function and the new value
block_arg_insert(f, block) ==
    LET val == PrimaryMap_len(f.values)
    IN  [ fun |-> [f EXCEPT
                !.values = PrimaryMap_push(f.values, [kind |-> Arg(block)]),
                !.blocks[block].arguments = Append(@, val)],
          ret |-> val ]

\* Function::block_entry, block_args, block_reads
block_entry(f) == f.entry_block[1]

block_args(f, block) == f.blocks[block].arguments

block_reads(f, block) == f.blocks[block].reads

\* Function::value_kind, value_block
\* Faulty variant: the kind of an alias is the kind of the value it stands for
value_kind_resolved(f, value) ==
    IF f.values[value].kind.tag = "Alias"
    THEN f.values[f.values[value].kind.ref].kind
    ELSE f.values[value].kind

value_kind(f, value) == f.values[value].kind

\* Faulty variant: no value is taken for a reference to a block
value_block_never(f, value) == None

\* Faulty variant: an argument value is taken for a reference to its block
value_block_any_ref(f, value) ==
    IF f.values[value].kind.tag \in {"Block", "Arg"}
    THEN Some(f.values[value].kind.ref)
    ELSE None

value_block(f, value) ==
    IF f.values[value].kind.tag = "Block" THEN Some(f.values[value].kind.ref) ELSE None

----------------------------------------------------------------------------
\* The builder (FunctionBuilder), as section 4.3 of the specification
\* describes it.

\* IntoValue: a block handed to the builder stands for its self-reference
\* value, a value for itself.
ABlock(block) == [is_block |-> TRUE, id |-> block]

AValue(value) == [is_block |-> FALSE, id |-> value]

IntoValue(f, x) == IF x.is_block THEN f.block_values[x.id] ELSE x.id

\* set_entry(B)
block_set_entry(f, block) == [f EXCEPT !.entry_block = Some(block)]

\* Constant interning: the value of an interned constant is reused, a new
\* constant gets a new value of kind Constant, recorded in constant_values.
value_constant(f, con) ==
    LET have == {v \in f.constant_values : f.values[v].kind = Constant(con)}
        val  == PrimaryMap_len(f.values)
    IN  IF have # {}
        THEN [fun |-> f, ret |-> CHOOSE v \in have : TRUE]
        ELSE [ fun |-> [f EXCEPT
                    !.values = PrimaryMap_push(f.values, [kind |-> Constant(con)]),
                    !.constant_values = @ \cup {val}],
               ret |-> val ]

\* The blocks referenced by the block-kind values of a read list, in read order.
ReferencedBlocks(f, reads) ==
    LET F[n \in 0..Len(reads)] ==
            IF n = 0 THEN <<>>
            ELSE IF value_block(f, reads[n]) # None
                 THEN Append(F[n - 1], value_block(f, reads[n])[1])
                 ELSE F[n - 1]
    IN  F[Len(reads)]

\* The set holding the elements of a sequence, inserted one after the other.
InsertAll(seq) ==
    LET F[n \in 0..Len(seq)] ==
            IF n = 0 THEN PooledEntitySet_new
            ELSE PooledEntitySet_insert(F[n - 1], seq[n])
    IN  F[Len(seq)]

\* The op assignment's graph update: the successors of the block become the
\* blocks its reads reference, the block leaves the predecessors of the
\* blocks it no longer reads and enters those of the blocks it reads.
graph_update_block(f, block) ==
    LET old == f.blocks[block].successors
        new == InsertAll(ReferencedBlocks(f, f.blocks[block].reads))
        Preds(b) ==
            IF PooledEntitySet_contains(new, b)
            THEN PooledEntitySet_insert(f.blocks[b].predecessors, block)
            ELSE IF PooledEntitySet_contains(old, b)
                 THEN PooledEntitySet_remove(f.blocks[b].predecessors, block)
                 ELSE f.blocks[b].predecessors
    IN  [f EXCEPT !.blocks =
            [b \in DOMAIN f.blocks |->
                [f.blocks[b] EXCEPT
                    !.predecessors = Preds(b),
                    !.successors = IF b = block THEN new ELSE @]]]

\* op_call_flow(B, target, args): the reads of B become [target, args...]
op_call_flow(f, block, target, args) ==
    LET target_val == IntoValue(f, target)
        assigned == [f EXCEPT
            !.blocks[block].op = Some("CallControlFlow"),
            !.blocks[block].reads = <<target_val>> \o args]
    IN  graph_update_block(assigned, block)

----------------------------------------------------------------------------
\* Graph validation (fun/mod.rs) and the petgraph view (block_graph.rs).

\* Function::graph_validate_block: TRUE when none of its assertions fails.
graph_validate_block(f, block) ==
    LET block_data == f.blocks[block]
        reads == block_data.reads
        block_reads_idx == {i \in 1..Len(reads) : f.values[reads[i]].kind.tag = "Block"}
        num_successors == Cardinality(block_reads_idx)
    IN  /\ \A i \in block_reads_idx :
             LET succ_block == f.values[reads[i]].kind.ref
             IN  /\ PooledEntitySet_contains(block_data.successors, succ_block)
                 /\ PooledEntitySet_contains(f.blocks[succ_block].predecessors, block)
        /\ PooledEntitySet_size(block_data.successors) = num_successors

\* Function::graph_validate_global
graph_validate_global(f) ==
    \A block \in PrimaryMap_keys(f.blocks) : graph_validate_block(f, block)

\* Faulty variant: the neighbours of a block are taken from its predecessor set
neighbors_incoming(f, block) == PooledEntitySet_iter(f.blocks[block].predecessors)

\* IntoNeighbors::neighbors: the successors, in the order SetIter yields them
neighbors(f, block) == PooledEntitySet_iter(f.blocks[block].successors)

\* Faulty variant: the iterator runs over the successor set of the block
BlockPredecessors_over_successors(f, block) ==
    PooledEntitySet_iter(f.blocks[block].successors)

\* Faulty variant: only the first predecessor is iterated
BlockPredecessors_first(f, block) ==
    IF f.blocks[block].predecessors = <<>>
    THEN <<>>
    ELSE <<PooledEntitySet_iter(f.blocks[block].predecessors)[1]>>

\* BlockPredecessors::new
BlockPredecessors_new(f, block) == PooledEntitySet_iter(f.blocks[block].predecessors)

\* The blocks reachable from a set of blocks through the successor sets.
RECURSIVE ReachableFrom(_, _)
ReachableFrom(f, set) ==
    LET more == set \cup UNION {Range(f.blocks[b].successors) : b \in set}
    IN  IF more = set THEN set ELSE ReachableFrom(f, more)

\* The blocks reachable from the entry; none when there is no entry.
Live(f) == IF f.entry_block = None THEN {} ELSE ReachableFrom(f, {f.entry_block[1]})

\* Faulty variant: the incoming neighbours keep only the blocks reachable from the entry
neighbors_directed_live(f, block, dir) ==
    IF dir = "Outgoing"
    THEN neighbors(f, block)
    ELSE SelectSeq(BlockPredecessors_new(f, block), LAMBDA p : p \in Live(f))

\* IntoNeighborsDirected::neighbors_directed
neighbors_directed(f, block, dir) ==
    IF dir = "Outgoing"
    THEN neighbors(f, block)
    ELSE BlockPredecessors_new(f, block)

\* EntityVisitMap: new (through Visitable::visit_map), visit, is_visited.
\* visit returns the map with the block marked and whether it was unmarked.
EntityVisitMap_new(size) == [size |-> size, set |-> {}]

visit_map(f) == EntityVisitMap_new(PrimaryMap_len(f.blocks))

visit(map, a) == [map |-> [map EXCEPT !.set = @ \cup {a}], ret |-> a \notin map.set]

is_visited(map, a) == a \in map.set

\* petgraph's Dfs::next, run until it returns None: the blocks it yielded.
RECURSIVE Dfs_run(_, _, _, _)
Dfs_run(f, stack, discovered, out) ==
    IF stack = <<>>
    THEN out
    ELSE LET node == stack[Len(stack)]
             v == visit(discovered, node)
         IN  IF v.ret
             THEN Dfs_run(f,
                          Front(stack) \o SelectSeq(neighbors(f, node),
                                                    LAMBDA succ : ~is_visited(v.map, succ)),
                          v.map,
                          Append(out, node))
             ELSE Dfs_run(f, Front(stack), discovered, out)

\* BlockGraph::dfs / dfs_iter: Dfs::new(graph, block_entry()), iterated
dfs_iter(f) == Dfs_run(f, <<block_entry(f)>>, visit_map(f), <<>>)

\* petgraph's DfsPostOrder::next, run until it returns None.
RECURSIVE DfsPostOrder_run(_, _, _, _, _)
DfsPostOrder_run(f, stack, discovered, finished, out) ==
    IF stack = <<>>
    THEN out
    ELSE LET nx == stack[Len(stack)]
             v == visit(discovered, nx)
         IN  IF v.ret
             THEN DfsPostOrder_run(f,
                          stack \o SelectSeq(neighbors(f, nx),
                                             LAMBDA succ : ~is_visited(v.map, succ)),
                          v.map, finished, out)
             ELSE LET w == visit(finished, nx)
                  IN  DfsPostOrder_run(f, Front(stack), discovered, w.map,
                                       IF w.ret THEN Append(out, nx) ELSE out)

\* BlockGraph::dfs_post_order / dfs_post_order_iter
dfs_post_order_iter(f) ==
    DfsPostOrder_run(f, <<block_entry(f)>>, visit_map(f), visit_map(f), <<>>)

----------------------------------------------------------------------------
\* The HIR that from_parsed works on.  A function body is the sequence of
\* the events the passes over the HIR meet when they walk it: the entry of a
\* binding form (a closure or a case clause), its end, a binder, a reference
\* and, once closures are lifted, a make-closure.

\* The dataflow identifier of a variable that has none yet.
INVALID_SSA == 0

\* AVariable::new
AVariable_new(var) == [var |-> var, ssa |-> INVALID_SSA]

Enter(form) == [ev |-> form, var |-> "", ssa |-> INVALID_SSA]

End == [ev |-> "end", var |-> "", ssa |-> INVALID_SSA]

Bind(var) == [ev |-> "bind", var |-> var, ssa |-> INVALID_SSA]

Ref(var) == [ev |-> "ref", var |-> var, ssa |-> INVALID_SSA]

MakeClosure == [ev |-> "make_closure", var |-> "", ssa |-> INVALID_SSA]

\* Number of binding forms open after the first k events.
Depth(evs, k) ==
    Cardinality({i \in 1..k : evs[i].ev \in {"closure", "case"}})
        - Cardinality({i \in 1..k : evs[i].ev = "end"})

\* The end of the binding form entered at event i.
MatchEnd(evs, i) ==
    CHOOSE j \in (i + 1)..Len(evs) :
        /\ Depth(evs, j) = Depth(evs, i) - 1
        /\ \A k \in (i + 1)..(j - 1) : Depth(evs, k) >= Depth(evs, i)

\* ScopeTracker: the next identifier and the stack of scope frames, each a
\* map from a variable name to its identifier.
ScopeTracker_new == [next_ssa |-> INVALID_SSA + 1, stack |-> <<>>]

new_ssa(env) == [env |-> [env EXCEPT !.next_ssa = @ + 1], ret |-> env.next_ssa]

push_scope(env, scope) == [env EXCEPT !.stack = Append(@, scope)]

pop_scope(env) == [env EXCEPT !.stack = Front(@)]

\* HashMap::new and HashMap::insert, for a scope frame.
HashMap_new == [k \in {} |-> k]

HashMap_insert(map, key, value) ==
    [k \in DOMAIN map \cup {key} |-> IF k = key THEN value ELSE map[k]]

\* A reference is looked up in the frames from the innermost outwards; a name
\* no frame defines is a free variable and keeps INVALID_SSA.
ScopeTracker_get(env, var) ==
    LET defining == {d \in 1..Len(env.stack) : var \in DOMAIN env.stack[d]}
    IN  IF defining = {}
        THEN INVALID_SSA
        ELSE LET d == CHOOSE x \in defining : \A y \in defining : y <= x
             IN  env.stack[d][var]

\* A binder gets a fresh identifier, installed in the innermost frame.
ScopeTracker_bind(env, var) ==
    LET r == new_ssa(env)
    IN  [ env |-> [r.env EXCEPT !.stack[Len(env.stack)] = HashMap_insert(@, var, r.ret)],
          ret |-> r.ret ]

\* assign_ssa_single_expression: the walk over the body of one function.
assign_ssa_single_expression(env, body) ==
    LET F[n \in 0..Len(body)] ==
            IF n = 0 THEN [env |-> env, body |-> <<>>]
            ELSE LET e == body[n]
                     at == F[n - 1]
                 IN  CASE e.ev \in {"closure", "case"} ->
                            [env |-> push_scope(at.env, HashMap_new),
                             body |-> Append(at.body, e)]
                       [] e.ev = "end" ->
                            [env |-> pop_scope(at.env), body |-> Append(at.body, e)]
                       [] e.ev = "bind" ->
                            LET r == ScopeTracker_bind(at.env, e.var)
                            IN  [env |-> r.env,
                                 body |-> Append(at.body, [e EXCEPT !.ssa = r.ret])]
                       [] e.ev = "ref" ->
                            [env |-> at.env,
                             body |-> Append(at.body,
                                 [e EXCEPT !.ssa = ScopeTracker_get(at.env, e.var)])]
                       [] OTHER -> [env |-> at.env, body |-> Append(at.body, e)]
    IN  F[Len(body)]

\* Faulty variant: an argument whose name the scope already holds reuses
\* the identifier of that name
assign_ssa_args_by_name(env, args) ==
    LET F[n \in 0..Len(args)] ==
            IF n = 0 THEN [env |-> env, args |-> <<>>, scope |-> HashMap_new]
            ELSE LET at == F[n - 1]
                     r == new_ssa(at.env)
                 IN  IF args[n].var \in DOMAIN at.scope
                     THEN [at EXCEPT !.args =
                            Append(@, [args[n] EXCEPT !.ssa = at.scope[args[n].var]])]
                     ELSE [env |-> r.env,
                           args |-> Append(at.args, [args[n] EXCEPT !.ssa = r.ret]),
                           scope |-> HashMap_insert(at.scope, args[n].var, r.ret)]
    IN  F[Len(args)]

\* from_parsed, the loop over the arguments of one function: each argument
\* gets a new identifier, entered in the scope under the argument's name.
assign_ssa_args(env, args) ==
    LET F[n \in 0..Len(args)] ==
            IF n = 0 THEN [env |-> env, args |-> <<>>, scope |-> HashMap_new]
            ELSE LET at == F[n - 1]
                     r == new_ssa(at.env)
                 IN  [env |-> r.env,
                      args |-> Append(at.args, [args[n] EXCEPT !.ssa = r.ret]),
                      scope |-> HashMap_insert(at.scope, args[n].var, r.ret)]
    IN  F[Len(args)]

\* Faulty variant: the body is walked over an empty scope in place of the
\* scope of the arguments
assign_ssa_function_empty_scope(env, func) ==
    LET a == assign_ssa_args(env, func.hir_fun.args)
        b == assign_ssa_single_expression(push_scope(a.env, HashMap_new), func.hir_fun.body)
    IN  [ env  |-> pop_scope(b.env),
          func |-> [func EXCEPT !.hir_fun = [args |-> a.args, body |-> b.body]] ]

\* Faulty variant: the scope of the arguments is not popped after the walk
assign_ssa_function_unpopped(env, func) ==
    LET a == assign_ssa_args(env, func.hir_fun.args)
        b == assign_ssa_single_expression(push_scope(a.env, a.scope), func.hir_fun.body)
    IN  [ env  |-> b.env,
          func |-> [func EXCEPT !.hir_fun = [args |-> a.args, body |-> b.body]] ]

\* from_parsed, the body of the SSA loop for one function: the function with
\* its identifiers assigned, and the scope tracker afterwards.
assign_ssa_function(env, func) ==
    LET a == assign_ssa_args(env, func.hir_fun.args)
        b == assign_ssa_single_expression(push_scope(a.env, a.scope), func.hir_fun.body)
    IN  [ env  |-> pop_scope(b.env),
          func |-> [func EXCEPT !.hir_fun = [args |-> a.args, body |-> b.body]] ]

\* Lambda extraction.  The closure entered at event i becomes a top-level
\* function: its arguments are the captured variables, in the order of their
\* first use, followed by the parameters of the closure.
RECURSIVE StripClosures(_, _)
StripClosures(evs, k) ==
    IF k > Len(evs) THEN <<>>
    ELSE IF evs[k].ev = "closure"
         THEN <<MakeClosure>> \o StripClosures(evs, MatchEnd(evs, k) + 1)
         ELSE <<evs[k]>> \o StripClosures(evs, k + 1)

ClosureSites(evs) == {i \in 1..Len(evs) : evs[i].ev = "closure"}

Captures(inner) ==
    LET bound == {inner[k].ssa : k \in {m \in 1..Len(inner) : inner[m].ev = "bind"}}
        free(k) == /\ inner[k].ev = "ref"
                   /\ inner[k].ssa # INVALID_SSA
                   /\ inner[k].ssa \notin bound
        F[n \in 0..Len(inner)] ==
            IF n = 0 THEN <<>>
            ELSE IF free(n) /\ \A m \in 1..Len(F[n - 1]) : F[n - 1][m].ssa # inner[n].ssa
                 THEN Append(F[n - 1], [var |-> inner[n].var, ssa |-> inner[n].ssa])
                 ELSE F[n - 1]
    IN  F[Len(inner)]

Lambda(evs, i, index) ==
    LET inner == SubSeq(evs, i + 1, MatchEnd(evs, i) - 1)
        nparams == Cardinality({k \in 1..Len(inner) :
                                   \A m \in 1..k : inner[m].ev = "bind"})
        params == [k \in 1..nparams |-> [var |-> inner[k].var, ssa |-> inner[k].ssa]]
        args == Captures(inner) \o params
    IN  [ ident |-> [name |-> "lambda", arity |-> Len(args), lambda |-> Some(index)],
          visibility |-> "Lambda",
          hir_fun |-> [args |-> args,
                       body |-> StripClosures(SubSeq(inner, nparams + 1, Len(inner)), 1)],
          lir_function |-> None ]

\* extract_lambdas: the closures of one function go to the collector and
\* leave a make-closure behind.
extract_lambdas(hir_fun, collector) ==
    LET evs == hir_fun.body
        F[n \in 0..Len(evs)] ==
            IF n = 0 THEN collector
            ELSE IF evs[n].ev = "closure"
                 THEN Append(F[n - 1], Lambda(evs, n, Len(F[n - 1])))
                 ELSE F[n - 1]
    IN  [ hir_fun |-> [hir_fun EXCEPT !.body = StripClosures(evs, 1)],
          collector |-> F[Len(evs)] ]

\* Faulty variant: the lifted functions are put in front of the existing ones
functions_extend_front(functions, lambdas) == lambdas \o functions

\* module.functions.extend(lambdas.drain(0..))
functions_extend(functions, lambdas) == functions \o lambdas

\* Faulty variant: the function-wise passes with no validation at the end
FunctionwisePasses_unvalidated ==
    <<"propagate_atomics", "simplify_branches", "validate", "promote_tail_calls">>

\* from_parsed, the calls made on the LIR of each function, in their order.
FunctionwisePasses ==
    <<"propagate_atomics", "simplify_branches", "validate",
      "promote_tail_calls", "validate">>

----------------------------------------------------------------------------
\* Inputs of the builder calls.
Consts == {0, 1}

Blocks == PrimaryMap_keys(fun.blocks)

Values == PrimaryMap_keys(fun.values)

Targets == {ABlock(b) : b \in Blocks} \cup {AValue(v) : v \in Values}

\* The argument lists of a control-flow call: none, or one value.
ArgLists == {<<>>} \cup {<<v>> : v \in Values}

\* No function is under construction.
BuilderIdle ==
    /\ fun = Function_new
    /\ last = [op |-> "new", block |-> None, ret |-> None,
               old_successors |-> <<>>, had_op |-> FALSE]
    /\ steps = 0

\* from_parsed is not running.
PipeIdle == pipe = [pc |-> "idle"]

\* No test call is running.
VmIdle == vm = [pc |-> "idle"]

\* No function is in the LIR passes.
LirIdle == lir = [pc |-> "idle"]

\* No formatter, no evaluation and no parse result are at hand.
FmtIdle == fmt = [pc |-> "idle"]

EvlIdle == evl = [pc |-> "idle"]

PrsIdle == prs = [pc |-> "idle"]

TextIdle == FmtIdle /\ EvlIdle /\ PrsIdle

Init ==
    /\ BuilderIdle
    /\ TextIdle
    /\ PipeIdle
    /\ VmIdle
    /\ LirIdle

Called(op, block, ret) ==
    [op |-> op, block |-> block, ret |-> ret, old_successors |-> <<>>, had_op |-> FALSE]

BlockInsert ==
    /\ steps < MaxSteps
    /\ LET r == block_insert(fun)
       IN  /\ fun' = r.fun
           /\ last' = Called("block_insert", None, Some(r.ret))
    /\ steps' = steps + 1
    /\ UNCHANGED beside_builder

BlockArgInsert ==
    /\ steps < MaxSteps
    /\ \E block \in Blocks :
         LET r == block_arg_insert(fun, block)
         IN  /\ fun' = r.fun
             /\ last' = Called("block_arg_insert", Some(block), Some(r.ret))
    /\ steps' = steps + 1
    /\ UNCHANGED beside_builder

BlockSetEntry ==
    /\ steps < MaxSteps
    /\ \E block \in Blocks :
         /\ fun' = block_set_entry(fun, block)
         /\ last' = Called("block_set_entry", Some(block), None)
    /\ steps' = steps + 1
    /\ UNCHANGED beside_builder

ValueConstant ==
    /\ steps < MaxSteps
    /\ \E con \in Consts :
         LET r == value_constant(fun, con)
         IN  /\ fun' = r.fun
             /\ last' = Called("value_constant", None, Some(r.ret))
    /\ steps' = steps + 1
    /\ UNCHANGED beside_builder

OpCallFlow ==
    /\ steps < MaxSteps
    /\ \E block \in Blocks, target \in Targets, args \in ArgLists :
         /\ fun' = op_call_flow(fun, block, target, args)
         /\ last' = [op |-> "op_call_flow", block |-> Some(block), ret |-> None,
                     old_successors |-> fun.blocks[block].successors,
                     had_op |-> fun.blocks[block].op # None]
    /\ steps' = steps + 1
    /\ UNCHANGED beside_builder

Next ==
    \/ BlockInsert
    \/ BlockArgInsert
    \/ BlockSetEntry
    \/ ValueConstant
    \/ OpCallFlow

Spec == Init /\ [][Next]_vars

----------------------------------------------------------------------------
\* from_parsed: the compilation of one parsed module.

\* Most functions a parsed module holds.
MaxFuns == 2

HirArgLists ==
    { <<AVariable_new("A")>>,
      <<AVariable_new("A"), AVariable_new("B")>>,
      <<AVariable_new("A"), AVariable_new("A")>> }

HirBodies ==
    { <<Ref("A")>>,
      <<Ref("A"), Enter("case"), Bind("B"), Ref("B"), End>>,
      <<Enter("closure"), Bind("B"), Ref("B"), Ref("A"), End, Ref("A")>>,
      <<Enter("closure"), Bind("A"), Enter("closure"), Bind("B"), Ref("A"), End,
        Ref("A"), End, Ref("A")>> }

ParsedFunctions == [args : HirArgLists, body : HirBodies]

ParsedModules == UNION {[1..n -> ParsedFunctions] : n \in 1..MaxFuns}

\* hir::from_parsed: one function definition per parsed function, no
\* identifier assigned and no LIR yet.
hir_from_parsed(parsed) ==
    [ functions |->
        [n \in 1..Len(parsed) |->
            [ ident |-> [name |-> "f", arity |-> Len(parsed[n].args), lambda |-> None],
              visibility |-> "Public",
              hir_fun |-> [args |-> parsed[n].args, body |-> parsed[n].body],
              lir_function |-> None ]],
      lambda_envs |-> None ]

InitPipeline ==
    /\ BuilderIdle
    /\ TextIdle
    /\ VmIdle
    /\ LirIdle
    /\ \E parsed \in ParsedModules :
          pipe = [ pc |-> "assign_ssa", i |-> 1, k |-> 1,
                   parsed |-> parsed,
                   module |-> hir_from_parsed(parsed),
                   env |-> ScopeTracker_new,
                   lambda_collector |-> <<>> ]

\* One turn of the loop that assigns the identifiers.
AssignSsa ==
    /\ pipe.pc = "assign_ssa"
    /\ LET r == assign_ssa_function(pipe.env, pipe.module.functions[pipe.i])
           last_turn == pipe.i = Len(pipe.module.functions)
       IN  pipe' = [pipe EXCEPT !.module.functions[pipe.i] = r.func,
                                !.env = r.env,
                                !.i = IF last_turn THEN 1 ELSE pipe.i + 1,
                                !.pc = IF last_turn THEN "extract_lambdas" ELSE @]
    /\ UNCHANGED beside_pipe

\* One turn of the loop that lifts the closures.
ExtractLambdas ==
    /\ pipe.pc = "extract_lambdas"
    /\ LET r == extract_lambdas(pipe.module.functions[pipe.i].hir_fun,
                                pipe.lambda_collector)
           last_turn == pipe.i = Len(pipe.module.functions)
       IN  pipe' = [pipe EXCEPT !.module.functions[pipe.i].hir_fun = r.hir_fun,
                                !.lambda_collector = r.collector,
                                !.i = IF last_turn THEN 1 ELSE pipe.i + 1,
                                !.pc = IF last_turn THEN "extend" ELSE @]
    /\ UNCHANGED beside_pipe

\* lambda_collector.finish() and the extension of the module.
ExtendFunctions ==
    /\ pipe.pc = "extend"
    /\ pipe' = [pipe EXCEPT
                   !.module.functions = functions_extend(@, pipe.lambda_collector),
                   !.lambda_collector = <<>>,
                   !.pc = "lower"]
    /\ UNCHANGED beside_pipe

\* do_lower: every function gets its LIR; the closure environments are
\* stored in the module.
Lower ==
    /\ pipe.pc = "lower"
    /\ pipe' = [pipe EXCEPT
                   !.module.functions =
                       [n \in 1..Len(@) |->
                           [@[n] EXCEPT !.lir_function = Some([passes |-> <<>>])]],
                   !.module.lambda_envs = Some("lambda_envs"),
                   !.pc = "functionwise"]
    /\ UNCHANGED beside_pipe

\* One call of the function-wise loop on the LIR of function i.
Functionwise ==
    /\ pipe.pc = "functionwise"
    /\ LET lir_mut == pipe.module.functions[pipe.i].lir_function[1]
           last_call == pipe.k = Len(FunctionwisePasses)
           last_turn == last_call /\ pipe.i = Len(pipe.module.functions)
       IN  pipe' = [pipe EXCEPT
                       !.module.functions[pipe.i].lir_function =
                           Some([lir_mut EXCEPT !.passes =
                                    Append(@, FunctionwisePasses[pipe.k])]),
                       !.k = IF last_call THEN 1 ELSE pipe.k + 1,
                       !.i = IF last_call /\ ~last_turn THEN pipe.i + 1 ELSE @,
                       !.pc = IF last_turn THEN "done" ELSE @]
    /\ UNCHANGED beside_pipe

NextPipeline ==
    \/ AssignSsa
    \/ ExtractLambdas
    \/ ExtendFunctions
    \/ Lower
    \/ Functionwise

SpecPipeline == InitPipeline /\ [][NextPipeline]_vars


----------------------------------------------------------------------------
\* Vocabulary of the properties.

\* The blocks that the block-kind values among the reads of B reference.
ReadBlocks(B) ==
    {value_kind(fun, v).ref :
        v \in {w \in Range(block_reads(fun, B)) : value_kind(fun, w).tag = "Block"}}

\* The blocks whose reads hold a block-kind value referencing S.
Readers(S) == {U \in Blocks : S \in ReadBlocks(U)}

Successors(B) == Range(fun.blocks[B].successors)

Predecessors(B) == Range(fun.blocks[B].predecessors)

\* The successors the last op_call_flow gave its block and the block did not
\* have before: the blocks whose predecessor set the call inserted into.
EdgesAdded ==
    IF last.op = "op_call_flow"
    THEN Successors(last.block[1]) \ Range(last.old_successors)
    ELSE {}

\* The successors the last op_call_flow took from its block.
EdgesRemoved ==
    IF last.op = "op_call_flow"
    THEN Range(last.old_successors) \ Successors(last.block[1])
    ELSE {}

Ascending(seq) == \A i, j \in 1..Len(seq) : i < j => seq[i] < seq[j]

----------------------------------------------------------------------------
\* C1: after any sequence of builder operations, every block S referenced by
\* a block-kind value in reads(B) is in successors(B) and has B in its
\* predecessors, and every successor S of B has B in predecessors(S).
C1_EdgesFollowReads ==
    \A B \in Blocks :
        /\ \A S \in ReadBlocks(B) : S \in Successors(B) /\ B \in Predecessors(S)
        /\ \A S \in Successors(B) : B \in Predecessors(S)

\* An op was assigned to a block that already had one, and the assignment
\* both dropped an edge and added one.
C1_Witness ==
    /\ last.op = "op_call_flow"
    /\ last.had_op
    /\ EdgesAdded # {}
    /\ EdgesRemoved # {}

\* C2: successors(B) is exactly the set of blocks referenced by block-kind
\* values in reads(B): Arg and Constant reads add no successor, and blocks no
\* longer read after a reassignment are removed.
C2_SuccessorsAreReadBlocks ==
    \A B \in Blocks : Successors(B) = ReadBlocks(B)

\* A block that read another block was reassigned an op that reads only an
\* argument value, and lost its successor.
C2_Witness ==
    /\ last.op = "op_call_flow"
    /\ last.had_op
    /\ EdgesRemoved # {}
    /\ LET B == last.block[1]
       IN  /\ fun.blocks[B].reads # <<>>
           /\ \A v \in Range(fun.blocks[B].reads) : fun.values[v].kind.tag = "Arg"
           /\ Successors(B) = {}

C4_RawEdgesKeepDeadBlocks ==
    \A S \in Blocks :
        /\ Range(neighbors_directed(fun, S, "Incoming")) = Readers(S)
        /\ \A U \in Readers(S) : S \in Range(neighbors_directed(fun, U, "Outgoing"))

\* An unreachable block U was given op_call_flow(U, S, []), S also has a
\* reachable predecessor, and the incoming neighbours of S hold both.
C4_Witness ==
    /\ fun.entry_block # None
    /\ last.op = "op_call_flow"
    /\ \E S \in Blocks, P \in Live(fun) :
         LET U == last.block[1]
         IN  /\ U \notin Live(fun)
             /\ fun.blocks[U].reads = <<fun.block_values[S]>>
             /\ {U, P} \subseteq Range(neighbors_directed(fun, S, "Incoming"))
             /\ neighbors_directed(fun, U, "Outgoing") = <<S>>

\* C5 as stated: predecessors(S) is iterated in the order of insertion, so
\* the block that the last op assignment added to predecessors(S) is yielded
\* last, whatever its handle.
C5_InsertionOrder ==
    \A S \in EdgesAdded :
        LET iter == neighbors_directed(fun, S, "Incoming")
        IN  iter[Len(iter)] = last.block[1]

\* C5 as amended: predecessors(B) and successors(B) are iterated in ascending
\* order of the block handles, whatever the order of insertion.
C5_HandleOrder ==
    \A B \in Blocks :
        /\ Ascending(neighbors_directed(fun, B, "Incoming"))
        /\ Ascending(neighbors_directed(fun, B, "Outgoing"))

\* The last op assignment added its block P to predecessors(S), which held a
\* block with a greater handle before, and P is yielded before that block.
C5_Witness ==
    \E S \in EdgesAdded :
        LET iter == neighbors_directed(fun, S, "Incoming")
            P == last.block[1]
        IN  \E i, j \in 1..Len(iter) : i < j /\ iter[i] = P /\ iter[j] # P

\* No element occurs twice in the sequence.
NoRepeat(seq) == \A i, j \in 1..Len(seq) : seq[i] = seq[j] => i = j

\* C6: in a function with an entry block, the DFS from the entry yields each
\* block reachable from the entry through successor edges exactly once and no
\* other block, also when an unreachable block has an edge into a reachable
\* one; the post-order DFS yields the same set of blocks.
C6_DfsVisitsReachable ==
    fun.entry_block # None =>
        /\ Range(dfs_iter(fun)) = ReachableFrom(fun, {block_entry(fun)})
        /\ NoRepeat(dfs_iter(fun))
        /\ Range(dfs_post_order_iter(fun)) = Range(dfs_iter(fun))
        /\ NoRepeat(dfs_post_order_iter(fun))

\* The entry block has a successor that the DFS meets again after having
\* visited it, and an unreachable block has an edge into a reachable one.
C6_Witness ==
    /\ fun.entry_block # None
    /\ \E B \in Successors(block_entry(fun)) : block_entry(fun) \in Successors(B)
    /\ \E U \in Blocks \ Range(dfs_iter(fun)) :
            Successors(U) \cap Range(dfs_iter(fun)) # {}

C8_ArgsOwnedInOrder ==
    /\ \A B \in Blocks :
         /\ \A i \in 1..Len(block_args(fun, B)) :
                value_kind(fun, block_args(fun, B)[i]) = Arg(B)
         /\ NoRepeat(block_args(fun, B))
         /\ Ascending(block_args(fun, B))
         /\ \A v \in Values :
                value_kind(fun, v) = Arg(B) => v \in Range(block_args(fun, B))
    /\ \A B1, B2 \in Blocks :
         B1 # B2 => Range(block_args(fun, B1)) \cap Range(block_args(fun, B2)) = {}
    /\ last.op = "block_arg_insert" =>
         LET args == block_args(fun, last.block[1])
         IN  args # <<>> /\ args[Len(args)] = last.ret[1]

\* block_arg_insert has just given a second argument to a block, after
\* another block got an argument in between.
C8_Witness ==
    /\ last.op = "block_arg_insert"
    /\ LET args == block_args(fun, last.block[1])
       IN  /\ Len(args) = 2
           /\ \E B \in Blocks \ {last.block[1]} :
                \E v \in Range(block_args(fun, B)) : args[1] < v /\ v < args[2]

\* C9: block_insert creates one new block and one new value of kind Block(B)
\* and records it: block_values is defined for every block, block_values[B]
\* has kind Block(B), and two blocks never map to the same value.
C9_BlockValues ==
    /\ DOMAIN fun.block_values = Blocks
    /\ \A B \in Blocks :
         /\ fun.block_values[B] \in Values
         /\ value_kind(fun, fun.block_values[B]) = Block(B)
    /\ \A B1, B2 \in Blocks :
         fun.block_values[B1] = fun.block_values[B2] => B1 = B2
    /\ \A v \in Values :
         value_kind(fun, v).tag = "Block" =>
            fun.block_values[value_kind(fun, v).ref] = v
    /\ last.op = "block_insert" =>
         /\ last.ret[1] = PrimaryMap_len(fun.blocks) - 1
         /\ fun.block_values[last.ret[1]] = PrimaryMap_len(fun.values) - 1

\* block_insert has just created a second block whose value does not have
\* the block's own number.
C9_Witness ==
    /\ last.op = "block_insert"
    /\ PrimaryMap_len(fun.blocks) >= 2
    /\ fun.block_values[last.ret[1]] # last.ret[1]

\* One step of the builder keeps every block and value handle, with the
\* value's kind, the block's self-reference value and the arguments the block
\* already had, and a handle returned by block_insert or block_arg_insert is
\* not one that existed before.
HandlesKept ==
    /\ DOMAIN fun.blocks \subseteq DOMAIN fun'.blocks
    /\ DOMAIN fun.values \subseteq DOMAIN fun'.values
    /\ \A v \in DOMAIN fun.values : fun'.values[v].kind = fun.values[v].kind
    /\ \A b \in DOMAIN fun.blocks :
         /\ fun'.block_values[b] = fun.block_values[b]
         /\ Len(fun'.blocks[b].arguments) >= Len(fun.blocks[b].arguments)
         /\ SubSeq(fun'.blocks[b].arguments, 1, Len(fun.blocks[b].arguments))
               = fun.blocks[b].arguments
    /\ last'.op = "block_insert" =>
         /\ last'.ret[1] \notin DOMAIN fun.blocks
         /\ last'.ret[1] \in DOMAIN fun'.blocks
    /\ last'.op = "block_arg_insert" =>
         /\ last'.ret[1] \notin DOMAIN fun.values
         /\ last'.ret[1] \in DOMAIN fun'.values

----------------------------------------------------------------------------
\* The module of the test pattern_variable_shadowing and the calls made on
\* it.  The terms are the integers and the one-element tuples of an integer.

\* Largest integer the calls are made with.
MaxInt == 3

TermInt(n) == [tag |-> "int", v |-> n]

TermTuple(n) == [tag |-> "tuple", v |-> n]

Terms == {TermInt(n) : n \in 1..MaxInt} \cup {TermTuple(n) : n \in 1..MaxInt}

Ok(term) == [tag |-> "ok", v |-> term]

Err(reason) == [tag |-> "error", v |-> TermInt(0), reason |-> reason]

\* Faulty variant: the variable of a case pattern is always a new binding
match_case_pattern_shadowing(env, var, value) ==
    IF value.tag # "tuple" THEN None
    ELSE Some([k \in DOMAIN env \cup {var} |-> IF k = var THEN TermInt(value.v) ELSE env[k]])

\* The pattern {Var} of a case clause, matched in the environment of the
\* function: a variable the function already binds matches an equal value
\* only, any other variable is bound by the match.
match_case_pattern(env, var, value) ==
    IF value.tag # "tuple" THEN None
    ELSE IF var \in DOMAIN env
         THEN IF env[var] = TermInt(value.v) THEN Some(env) ELSE None
         ELSE Some([k \in DOMAIN env \cup {var} |->
                       IF k = var THEN TermInt(value.v) ELSE env[k]])

\* The pattern {Var} in the head of a closure: the variable is a parameter
\* of the closure, whatever the function around it binds.
match_fun_pattern(env, var, value) ==
    IF value.tag # "tuple" THEN None
    ELSE Some([k \in DOMAIN env \cup {var} |-> IF k = var THEN TermInt(value.v) ELSE env[k]])

ArgsEnv(A, B) == [k \in {"A", "B"} |-> IF k = "A" THEN A ELSE B]

\* case_matching(A, B) -> case A of {B} -> B end.
case_matching(A, B) ==
    LET env == ArgsEnv(A, B)
        m == match_case_pattern(env, "B", env["A"])
    IN  IF m = None THEN Err("case_clause") ELSE Ok(m[1]["B"])

\* fun_shadowing(A, B) -> C = fun({B}) -> B end, C(A).
fun_shadowing(A, B) ==
    LET env == ArgsEnv(A, B)
        m == match_fun_pattern(env, "B", env["A"])
    IN  IF m = None THEN Err("function_clause") ELSE Ok(m[1]["B"])

\* run(): the four matches of the test, the second one on a caught failure.
run ==
    IF /\ case_matching(TermTuple(1), TermInt(1)) = Ok(TermInt(1))
       /\ case_matching(TermTuple(1), TermInt(2)).tag = "error"
       /\ fun_shadowing(TermTuple(1), TermInt(1)) = Ok(TermInt(1))
       /\ fun_shadowing(TermTuple(2), TermInt(1)) = Ok(TermInt(2))
    THEN Ok(TermInt(2))
    ELSE Err("badmatch")

InitVm ==
    /\ BuilderIdle
    /\ TextIdle
    /\ PipeIdle
    /\ LirIdle
    /\ \/ vm = [pc |-> "call", fn |-> "run", args |-> <<>>]
       \/ \E fn \in {"case_matching", "fun_shadowing"}, A, B \in Terms :
             vm = [pc |-> "call", fn |-> fn, args |-> <<A, B>>]

Returned(result) ==
    vm' = [pc |-> "returned", fn |-> vm.fn, args |-> vm.args, result |-> result]

CallRun ==
    /\ vm.pc = "call"
    /\ vm.fn = "run"
    /\ Returned(run)
    /\ UNCHANGED beside_vm

CallCaseMatching ==
    /\ vm.pc = "call"
    /\ vm.fn = "case_matching"
    /\ Returned(case_matching(vm.args[1], vm.args[2]))
    /\ UNCHANGED beside_vm

CallFunShadowing ==
    /\ vm.pc = "call"
    /\ vm.fn = "fun_shadowing"
    /\ Returned(fun_shadowing(vm.args[1], vm.args[2]))
    /\ UNCHANGED beside_vm

NextVm ==
    \/ CallRun
    \/ CallCaseMatching
    \/ CallFunShadowing

SpecVm == InitVm /\ [][NextVm]_vars

----------------------------------------------------------------------------
\* The LIR of one function: the ops of the lowering, the dialects and the
\* passes.

\* Op assignment: the op and the reads of the block are replaced and the
\* edges of the block follow its new reads.
op_set(f, block, op, reads) ==
    graph_update_block([f EXCEPT !.blocks[block].op = Some(op),
                                 !.blocks[block].reads = reads], block)

\* Faulty variant: the dialects are ranked from the last to the first
Dialect_rank_reversed(dialect) ==
    CASE dialect = "High" -> 2
      [] dialect = "Normal" -> 1
      [] dialect = "CPS" -> 0

\* The position of a dialect in the declaration of the enum.
Dialect_rank(dialect) ==
    CASE dialect = "High" -> 0
      [] dialect = "Normal" -> 1
      [] dialect = "CPS" -> 2

Dialects == {"High", "Normal", "CPS"}

\* Faulty variant: Normal allows what High allows
Dialect_allows_case_in_normal(dialect, op) ==
    CASE dialect = "High" -> TRUE
      [] dialect = "Normal" -> TRUE
      [] dialect = "CPS" -> op \notin {"Case", "CallFunction"}

\* Dialect: High allows all operations, Normal is High minus the pattern
\* matching construct, CPS is Normal minus the returning calls.
Dialect_allows(dialect, op) ==
    CASE dialect = "High" -> TRUE
      [] dialect = "Normal" -> op # "Case"
      [] dialect = "CPS" -> op \notin {"Case", "CallFunction"}

\* The constants of the lowered functions: false, true and a callee.
ConstFalse == 0

ConstTrue == 1

ConstCallee == 2

\* The function the lowering makes of
\*     f(X) -> Y = if <cond> -> <k1>; true -> <k2> end, <tail>(Y).
\* b0 is the entry, with the return and the throw continuation and X as
\* arguments; it branches to b1 or b2; b1 jumps to b3 with a value for its
\* argument Y, and so does b2 unless it returns X at once; b3 returns Y,
\* jumps to b4 with Y, matches on Y or calls a function with Y, the match and
\* the call continuing in b4, which returns its argument.
Lowered(cond, k1, k2, tail) ==
    LET n0 == block_insert(Function_new)
        b0 == n0.ret
        a1 == block_arg_insert(n0.fun, b0)
        a2 == block_arg_insert(a1.fun, b0)
        a3 == block_arg_insert(a2.fun, b0)
        ret == a1.ret
        thr == a2.ret
        x == a3.ret
        n1 == block_insert(a3.fun)
        n2 == block_insert(n1.fun)
        n3 == block_insert(n2.fun)
        a4 == block_arg_insert(n3.fun, n3.ret)
        n4 == block_insert(a4.fun)
        a5 == block_arg_insert(n4.fun, n4.ret)
        c0 == value_constant(a5.fun, ConstFalse)
        c1 == value_constant(c0.fun, ConstTrue)
        c2 == value_constant(c1.fun, ConstCallee)
        y == a4.ret
        r == a5.ret
        V(k) == CASE k = "false" -> c0.ret
                  [] k = "true" -> c1.ret
                  [] k = "arg" -> x
        g0 == block_set_entry(c2.fun, b0)
        g1 == op_set(g0, b0, "IfBool",
                     <<IntoValue(g0, ABlock(n1.ret)), IntoValue(g0, ABlock(n2.ret)), V(cond)>>)
        g2 == op_call_flow(g1, n1.ret, ABlock(n3.ret), <<V(k1)>>)
        g3 == IF k2 = "return"
              THEN op_call_flow(g2, n2.ret, AValue(ret), <<x>>)
              ELSE op_call_flow(g2, n2.ret, ABlock(n3.ret), <<V(k2)>>)
        g4 == op_call_flow(g3, n4.ret, AValue(ret), <<r>>)
    IN  CASE tail = "return" -> op_call_flow(g4, n3.ret, AValue(ret), <<y>>)
          [] tail = "jump" -> op_call_flow(g4, n3.ret, ABlock(n4.ret), <<y>>)
          [] tail = "case" ->
                op_set(g4, n3.ret, "Case", <<IntoValue(g4, ABlock(n4.ret)), y>>)
          [] tail = "call" ->
                op_set(g4, n3.ret, "CallFunction",
                       <<IntoValue(g4, ABlock(n4.ret)), thr, c2.ret, y>>)

\* A function in which a value was replaced by another one and blocks still
\* read it: the reads of the first argument of the block are reads of a new
\* value, an alias of that argument.
Aliased(f, block) ==
    LET old == block_args(f, block)[1]
        new == PrimaryMap_len(f.values)
    IN  [f EXCEPT
            !.values = PrimaryMap_push(f.values, [kind |-> Alias(old)]),
            !.blocks = [b \in DOMAIN f.blocks |->
                [f.blocks[b] EXCEPT !.reads =
                    [i \in 1..Len(@) |-> IF @[i] = old THEN new ELSE @[i]]]]]

\* The blocks a traversal from the entry visits.
Reachable(f) == Range(dfs_iter(f))

\* The block a control-flow call of P jumps to, if its target is a block.
CallTarget(f, P) ==
    IF f.blocks[P].op = Some("CallControlFlow")
    THEN value_block(f, block_reads(f, P)[1])
    ELSE None

\* validate: the graph invariants hold, the reachable blocks read values
\* that exist and are no aliases, a jump to a block passes as many values as
\* the block has arguments, and the dialect allows the op of every reachable
\* block.
validate(f, dialect) ==
    /\ f.entry_block # None
    /\ graph_validate_global(f)
    /\ \A B \in Reachable(f) :
          /\ f.blocks[B].op # None
          /\ \A i \in 1..Len(block_reads(f, B)) :
                /\ block_reads(f, B)[i] \in DOMAIN f.values
                /\ value_kind(f, block_reads(f, B)[i]).tag # "Alias"
          /\ \A i \in 1..Len(block_args(f, B)) :
                value_kind(f, block_args(f, B)[i]).tag # "Alias"
          /\ CallTarget(f, B) # None =>
                Len(block_reads(f, B)) - 1 = Len(block_args(f, CallTarget(f, B)[1]))
          /\ Dialect_allows(dialect, f.blocks[B].op[1])

\* Atomic propagation.  Argument i of block B can go when B has predecessors
\* and every one of them jumps to B with the same value in position i, a
\* constant or an argument of a block that has a single predecessor.
Passed(f, P, B, i) ==
    IF CallTarget(f, P) = Some(B) THEN Some(block_reads(f, P)[i + 1]) ELSE None

Atomic(f, value) ==
    \/ value_kind(f, value).tag = "Constant"
    \/ /\ value_kind(f, value).tag = "Arg"
       /\ Len(BlockPredecessors_new(f, value_kind(f, value).ref)) = 1

Eliminable(f, B, i) ==
    LET preds == BlockPredecessors_new(f, B)
    IN  /\ preds # <<>>
        /\ Passed(f, preds[1], B, i) # None
        /\ Atomic(f, Passed(f, preds[1], B, i)[1])
        /\ \A n \in 1..Len(preds) :
              Passed(f, preds[n], B, i) = Passed(f, preds[1], B, i)

\* The value that replaces an eliminable argument.
Replacement(f, B, i) == Passed(f, BlockPredecessors_new(f, B)[1], B, i)[1]

\* A sequence without the positions of a set.
RECURSIVE DropPositions(_, _)
DropPositions(seq, drop) ==
    IF seq = <<>> THEN <<>>
    ELSE IF Len(seq) \in drop
         THEN DropPositions(Front(seq), drop)
         ELSE Append(DropPositions(Front(seq), drop), seq[Len(seq)])

propagate_atomics(f) ==
    LET Sites == {s \in UNION {{<<B, i>> : i \in 1..Len(block_args(f, B))} :
                                  B \in DOMAIN f.blocks} :
                     Eliminable(f, s[1], s[2])}
        Gone(s) == block_args(f, s[1])[s[2]]
        Once(v) ==
            IF \E s \in Sites : Gone(s) = v
            THEN Replacement(f, (CHOOSE s \in Sites : Gone(s) = v)[1],
                                (CHOOSE s \in Sites : Gone(s) = v)[2])
            ELSE v
        \* a replacement that is itself eliminated is replaced in turn
        Chain[n \in 0..Cardinality(Sites)] ==
            [v \in DOMAIN f.values |-> IF n = 0 THEN v ELSE Once(Chain[n - 1][v])]
        Subst(v) == Chain[Cardinality(Sites)][v]
        Kept(P) ==
            IF CallTarget(f, P) = None
            THEN block_reads(f, P)
            ELSE DropPositions(block_reads(f, P),
                               {s[2] + 1 : s \in {t \in Sites : t[1] = CallTarget(f, P)[1]}})
    IN  [f EXCEPT
            !.blocks = [B \in DOMAIN f.blocks |->
                [f.blocks[B] EXCEPT
                    !.arguments = DropPositions(@, {s[2] : s \in {t \in Sites : t[1] = B}}),
                    !.reads = [n \in 1..Len(Kept(B)) |-> Subst(Kept(B)[n])]]],
            !.values = [v \in DOMAIN f.values |->
                IF \E s \in Sites : Gone(s) = v
                THEN [kind |-> Alias(Subst(v))]
                ELSE f.values[v]]]

\* Branch simplification: a conditional on a constant becomes a jump to the
\* arm the constant selects.
SelectedArm(f, B) ==
    LET reads == block_reads(f, B)
    IN  IF /\ f.blocks[B].op = Some("IfBool")
           /\ value_kind(f, reads[3]).tag = "Constant"
           /\ value_kind(f, reads[3]).ref \in {ConstFalse, ConstTrue}
        THEN Some(IF value_kind(f, reads[3]).ref = ConstTrue THEN reads[1] ELSE reads[2])
        ELSE None

RECURSIVE simplify_blocks(_, _)
simplify_blocks(f, blocks) ==
    IF blocks = {} THEN f
    ELSE LET B == CHOOSE b \in blocks : TRUE
         IN  simplify_blocks(
                 IF SelectedArm(f, B) = None THEN f
                 ELSE op_set(f, B, "CallControlFlow", <<SelectedArm(f, B)[1]>>),
                 blocks \ {B})

simplify_branches(f) == simplify_blocks(f, DOMAIN f.blocks)

\* Pattern compilation: a match becomes a jump to its arm with the matched
\* value.
RECURSIVE compile_blocks(_, _)
compile_blocks(f, blocks) ==
    IF blocks = {} THEN f
    ELSE LET B == CHOOSE b \in blocks : TRUE
         IN  compile_blocks(
                 IF f.blocks[B].op = Some("Case")
                 THEN op_set(f, B, "CallControlFlow", block_reads(f, B))
                 ELSE f,
                 blocks \ {B})

pattern_compile(f) == compile_blocks(f, DOMAIN f.blocks)

\* CPS conversion: a returning call becomes a tail call that passes its two
\* continuations to the callee.
RECURSIVE convert_blocks(_, _)
convert_blocks(f, blocks) ==
    IF blocks = {} THEN f
    ELSE LET B == CHOOSE b \in blocks : TRUE
             reads == block_reads(f, B)
         IN  convert_blocks(
                 IF f.blocks[B].op = Some("CallFunction")
                 THEN op_set(f, B, "TailCall",
                             <<reads[3], reads[1], reads[2]>> \o SubSeq(reads, 4, Len(reads)))
                 ELSE f,
                 blocks \ {B})

cps_convert(f) == convert_blocks(f, DOMAIN f.blocks)

\* Tail-call promotion.  The return block of a returning call is
\* degenerate when it has one argument and does nothing but pass it to the
\* return continuation of the function, the first argument of the entry.
ReturnBlock(f, B) ==
    IF f.blocks[B].op = Some("CallFunction")
    THEN value_block(f, block_reads(f, B)[1])
    ELSE None

Degenerate(f, R) ==
    /\ Len(block_args(f, R)) = 1
    /\ f.blocks[R].op = Some("CallControlFlow")
    /\ block_reads(f, R) = <<block_args(f, block_entry(f))[1], block_args(f, R)[1]>>

Promotable(f, B) ==
    /\ ReturnBlock(f, B) # None
    /\ Degenerate(f, ReturnBlock(f, B)[1])

RECURSIVE promote_blocks(_, _)
promote_blocks(f, blocks) ==
    IF blocks = {} THEN f
    ELSE LET B == CHOOSE b \in blocks : TRUE
             reads == block_reads(f, B)
         IN  promote_blocks(
                 IF Promotable(f, B)
                 THEN op_set(f, B, "TailCall", SubSeq(reads, 3, Len(reads)))
                 ELSE f,
                 blocks \ {B})

promote_tail_calls(f) == promote_blocks(f, DOMAIN f.blocks)

\* The lowered functions the passes are run on, and those of them in which a
\* value was replaced and is still read.
LoweredFunctions ==
    {Lowered(cond, k1, k2, tail) :
        cond \in {"false", "true", "arg"}, k1 \in {"false", "true", "arg"},
        k2 \in {"false", "true", "arg", "return"},
        tail \in {"return", "jump", "case", "call"}}

InitLir ==
    /\ BuilderIdle
    /\ TextIdle
    /\ PipeIdle
    /\ VmIdle
    /\ \E f \in LoweredFunctions :
          \/ lir = [pc |-> "lowered", f |-> f, dialect |-> "High", origin |-> "lowered",
                    validated |-> None]
          \/ \E B \in {b \in DOMAIN f.blocks : block_args(f, b) # <<>>} :
                lir = [pc |-> "lowered", f |-> Aliased(f, B), dialect |-> "High",
                       origin |-> "aliased", validated |-> None]

Ran(pass, f, dialect) ==
    lir' = [lir EXCEPT !.pc = pass, !.f = f, !.dialect = dialect, !.validated = None]

PropagateAtomics ==
    /\ lir.pc # "idle"
    /\ Ran("propagate_atomics", propagate_atomics(lir.f), lir.dialect)
    /\ UNCHANGED beside_lir

SimplifyBranches ==
    /\ lir.pc # "idle"
    /\ Ran("simplify_branches", simplify_branches(lir.f), lir.dialect)
    /\ UNCHANGED beside_lir

PatternCompile ==
    /\ lir.pc # "idle"
    /\ lir.dialect = "High"
    /\ Ran("pattern_compile", pattern_compile(lir.f), "Normal")
    /\ UNCHANGED beside_lir

CpsConversion ==
    /\ lir.pc # "idle"
    /\ lir.dialect = "Normal"
    /\ Ran("cps_convert", cps_convert(lir.f), "CPS")
    /\ UNCHANGED beside_lir

PromoteTailCalls ==
    /\ lir.pc # "idle"
    /\ Ran("promote_tail_calls", promote_tail_calls(lir.f), lir.dialect)
    /\ UNCHANGED beside_lir

\* Faulty variant: validation folds the constant branches of the function
\* it checks
Validate_folding ==
    /\ lir.pc # "idle"
    /\ \E dialect \in Dialects :
          lir' = [lir EXCEPT !.pc = "validate",
                             !.f = simplify_branches(lir.f),
                             !.validated = Some([dialect |-> dialect,
                                                 ok |-> validate(lir.f, dialect)])]
    /\ UNCHANGED beside_lir

\* validate, against any of the dialects; the function is left as it is.
Validate ==
    /\ lir.pc # "idle"
    /\ \E dialect \in Dialects :
          lir' = [lir EXCEPT !.pc = "validate",
                             !.validated = Some([dialect |-> dialect,
                                                 ok |-> validate(lir.f, dialect)])]
    /\ UNCHANGED beside_lir

NextLir ==
    \/ PropagateAtomics
    \/ SimplifyBranches
    \/ PatternCompile
    \/ CpsConversion
    \/ PromoteTailCalls
    \/ Validate

SpecLir == InitLir /\ [][NextLir]_vars

----------------------------------------------------------------------------
\* Vocabulary of the claims about from_parsed.

Functions == pipe.module.functions

\* The calls made so far on the LIR of function n.
Passes(n) ==
    IF Functions[n].lir_function = None THEN <<>>
    ELSE Functions[n].lir_function[1].passes

TransformingPasses == {"propagate_atomics", "simplify_branches", "promote_tail_calls"}

\* C14 as stated: every transforming pass is followed by validate before the
\* next pass runs, and the pipeline of a function ends with validate.
C14_EachPassValidated ==
    pipe.pc \in {"functionwise", "done"} =>
        \A n \in 1..Len(Functions) :
            /\ \A j \in 1..(Len(Passes(n)) - 1) :
                  Passes(n)[j] \in TransformingPasses => Passes(n)[j + 1] = "validate"
            /\ pipe.pc = "done" =>
                  /\ Passes(n) # <<>>
                  /\ Passes(n)[Len(Passes(n))] = "validate"

\* C14, amended: simplify_branches and promote_tail_calls are each followed
\* by validate before the next pass, propagate_atomics is followed directly by
\* simplify_branches with no validate between them, and the last call on
\* every function is validate.
C14_ValidatedAfterSimplifyAndPromote ==
    pipe.pc \in {"functionwise", "done"} =>
        \A n \in 1..Len(Functions) :
            /\ \A j \in 1..(Len(Passes(n)) - 1) :
                  /\ Passes(n)[j] \in {"simplify_branches", "promote_tail_calls"}
                        => Passes(n)[j + 1] = "validate"
                  /\ Passes(n)[j] = "propagate_atomics"
                        => Passes(n)[j + 1] = "simplify_branches"
            /\ pipe.pc = "done" =>
                  /\ Passes(n) # <<>>
                  /\ Passes(n)[Len(Passes(n))] = "validate"
                  /\ \E j \in 1..Len(Passes(n)) : Passes(n)[j] = "promote_tail_calls"

C14_Witness ==
    /\ pipe.pc = "done"
    /\ \A n \in 1..Len(Functions) : Len(Passes(n)) = 5
    /\ Len(Functions) > 1

Idents(fs) == [n \in 1..Len(fs) |-> fs[n].ident]

RECURSIVE TotalClosureSites(_)
TotalClosureSites(parsed) ==
    IF parsed = <<>> THEN 0
    ELSE Cardinality(ClosureSites(parsed[Len(parsed)].body))
            + TotalClosureSites(Front(parsed))

FunctionsStep ==
    LET before == pipe.module.functions
        after == pipe'.module.functions
    IN  IF pipe.pc = "extend"
        THEN /\ Len(after) = Len(before) + TotalClosureSites(pipe.parsed)
             /\ SubSeq(after, 1, Len(before)) = before
             /\ \A n \in (Len(before) + 1)..Len(after) : after[n].ident.lambda # None
        ELSE Idents(after) = Idents(before)

NoClosureLeft ==
    pipe.pc \in {"extend", "lower", "functionwise", "done"} =>
        \A n \in 1..Len(Functions) : ClosureSites(Functions[n].hir_fun.body) = {}

\* C15: only the extension that follows lambda extraction changes the number
\* of functions: it appends one function per closure site after the existing
\* ones; every other step leaves the list of identifiers as it is; once the
\* closures are extracted no function body holds a closure literal.
C15_OnlyExtractionAddsFunctions == [][FunctionsStep]_vars /\ []NoClosureLeft

C15_Witness ==
    /\ pipe.pc = "lower"
    /\ Len(pipe.parsed) = 2
    /\ Len(Functions) = Len(pipe.parsed) + 3
    /\ Functions[1].ident.lambda = None
    /\ Functions[3].ident.lambda # None

\* The identifiers at the binding sites of a module: the arguments and the
\* binders of every function.
BindingSites(fs) ==
    {<<n, "arg", k>> : n \in 1..Len(fs), k \in 1..2}
        \cup {<<n, "bind", k>> : n \in 1..Len(fs), k \in 1..9}

IsSite(fs, site) ==
    IF site[2] = "arg"
    THEN site[3] <= Len(fs[site[1]].hir_fun.args)
    ELSE /\ site[3] <= Len(fs[site[1]].hir_fun.body)
         /\ fs[site[1]].hir_fun.body[site[3]].ev = "bind"

SiteSsa(fs, site) ==
    IF site[2] = "arg"
    THEN fs[site[1]].hir_fun.args[site[3]].ssa
    ELSE fs[site[1]].hir_fun.body[site[3]].ssa

\* C16: once the identifiers are assigned, every binding site of the module
\* has an identifier other than INVALID_SSA, and no two binding sites of the
\* module, of one function or of two, share an identifier.
C16_BindingSitesDistinct ==
    pipe.pc \in {"extract_lambdas", "extend"} =>
        LET sites == {s \in BindingSites(Functions) : IsSite(Functions, s)}
        IN  /\ \A s \in sites : SiteSsa(Functions, s) # INVALID_SSA
            /\ \A s, t \in sites :
                  s # t => SiteSsa(Functions, s) # SiteSsa(Functions, t)

C16_Witness ==
    /\ pipe.pc = "extract_lambdas"
    /\ pipe.i = 1
    /\ Len(Functions) = 2
    /\ \A n \in 1..2 :
          /\ Len(Functions[n].hir_fun.args) = 2
          /\ Functions[n].hir_fun.args[1].var = Functions[n].hir_fun.args[2].var
          /\ Functions[n].hir_fun.args[1].ssa # Functions[n].hir_fun.args[2].ssa
    /\ \E k \in 1..Len(Functions[2].hir_fun.body) :
          Functions[2].hir_fun.body[k].ev = "bind"

\* The binder a reference at event i sees: the latest binder of the name
\* whose binding form is still open at i.
VisibleBinders(evs, i) ==
    {j \in 1..(i - 1) :
        /\ evs[j].ev = "bind"
        /\ evs[j].var = evs[i].var
        /\ \A k \in j..i : Depth(evs, k) >= Depth(evs, j)}

Resolved(hir_fun, i) ==
    LET evs == hir_fun.body
        V == VisibleBinders(evs, i)
        A == {k \in 1..Len(hir_fun.args) : hir_fun.args[k].var = evs[i].var}
    IN  IF V # {}
        THEN evs[CHOOSE j \in V : \A m \in V : m <= j].ssa
        ELSE IF A # {}
             THEN hir_fun.args[CHOOSE k \in A : \A m \in A : m <= k].ssa
             ELSE INVALID_SSA

----------------------------------------------------------------------------
\* Vocabulary of the claims about the LIR passes.

IsAlias(f, v) == f.values[v].kind.tag = "Alias"

\* The reachable blocks that read an alias or have one as an argument.
AliasReaders(f) ==
    {B \in Live(f) :
        \/ \E i \in 1..Len(f.blocks[B].reads) : IsAlias(f, f.blocks[B].reads[i])
        \/ \E i \in 1..Len(f.blocks[B].arguments) : IsAlias(f, f.blocks[B].arguments[i])}

\* C11: in a lowered function, and after every pass run on it, no reachable
\* block reads an alias or has one as an argument; validation, against any
\* dialect, fails on a function in which a reachable block reads an alias.
C11_NoAliasInActiveGraph ==
    lir.pc # "idle" =>
        /\ lir.origin = "lowered" => AliasReaders(lir.f) = {}
        /\ AliasReaders(lir.f) # {} =>
              /\ \A dialect \in Dialects : ~validate(lir.f, dialect)
              /\ lir.validated # None => ~lir.validated[1].ok

C11_Witness ==
    /\ lir.pc = "validate"
    /\ lir.origin = "aliased"
    /\ AliasReaders(lir.f) # {}
    /\ ~lir.validated[1].ok
    /\ lir.validated[1].dialect = "High"
    /\ \E v \in DOMAIN lir.f.values :
          /\ IsAlias(lir.f, v)
          /\ \A B \in DOMAIN lir.f.blocks :
                \A i \in 1..Len(lir.f.blocks[B].reads) : lir.f.blocks[B].reads[i] # v

DialectStep ==
    \/ lir'.dialect = lir.dialect
    \/ Dialect_rank(lir'.dialect) = Dialect_rank(lir.dialect) + 1

HasOp(f, op) == \E B \in Live(f) : f.blocks[B].op = Some(op)

\* C13: validation against Normal or CPS fails on a function with a case
\* op, validation against CPS fails on a function with a returning call; a
\* lowered function with a case op validates against High, one with a
\* returning call against High and Normal.
C13_DialectRejectsOps ==
    (lir.pc # "idle" /\ lir.validated # None) =>
        LET dialect == lir.validated[1].dialect
            ok == lir.validated[1].ok
        IN  /\ HasOp(lir.f, "Case") =>
                  /\ dialect \in {"Normal", "CPS"} => ~ok
                  /\ (dialect = "High" /\ lir.origin = "lowered") => ok
            /\ HasOp(lir.f, "CallFunction") =>
                  /\ dialect = "CPS" => ~ok
                  /\ (dialect \in {"High", "Normal"} /\ lir.origin = "lowered") => ok

C13_Witness ==
    /\ lir.pc = "validate"
    /\ lir.origin = "lowered"
    /\ HasOp(lir.f, "Case")
    /\ lir.validated = Some([dialect |-> "Normal", ok |-> FALSE])

\* The arguments a step of the passes takes from the blocks.
Eliminated(f, g) ==
    {v \in DOMAIN f.values :
        \E B \in DOMAIN f.blocks :
            /\ v \in Range(f.blocks[B].arguments)
            /\ v \notin Range(g.blocks[B].arguments)}

\* Every predecessor of B jumps to B with the value w for argument i.
AllPass(f, B, i, w) ==
    \A P \in Range(f.blocks[B].predecessors) :
        /\ f.blocks[P].op = Some("CallControlFlow")
        /\ f.blocks[P].reads[1] = f.block_values[B]
        /\ f.blocks[P].reads[i + 1] = w

IsConstant(f, w) == f.values[w].kind.tag = "Constant"

IsSinglePredecessorArg(f, w) ==
    /\ f.values[w].kind.tag = "Arg"
    /\ Len(f.blocks[f.values[w].kind.ref].predecessors) = 1

\* What a step of atomic propagation does, Allowed(f, w) saying which values
\* may stand for an eliminated argument.
PropagateStep(Allowed(_, _)) ==
    lir'.pc = "propagate_atomics" =>
        LET f == lir.f
            g == lir'.f
        IN  /\ \A B \in Live(g) : Range(g.blocks[B].reads) \cap Eliminated(f, g) = {}
            /\ \A B \in DOMAIN f.blocks : \A i \in 1..Len(f.blocks[B].arguments) :
                  f.blocks[B].arguments[i] \in Eliminated(f, g) =>
                      /\ f.blocks[B].predecessors # <<>>
                      /\ \E w \in DOMAIN f.values :
                            Allowed(f, w) /\ AllPass(f, B, i, w)
            /\ \A B \in DOMAIN f.blocks :
                  f.blocks[B].predecessors = <<>> =>
                      /\ g.blocks[B].arguments = f.blocks[B].arguments
                      /\ g.blocks[B].op = f.blocks[B].op

ConstantOnly(f, w) == IsConstant(f, w)

ConstantOrSinglePredecessorArg(f, w) ==
    IsConstant(f, w) \/ IsSinglePredecessorArg(f, w)

\* C19 as stated: atomic propagation leaves no reachable block that reads an
\* argument it eliminated; it eliminates an argument only of a block that has
\* predecessors, all of which jump to the block with one and the same constant
\* for the argument; a block with no predecessors keeps its arguments and op.
C19_PropagationEliminatesOnlyAgreedConstants == [][PropagateStep(ConstantOnly)]_vars

\* C19, amended: as above, the value that all the predecessors pass being a
\* constant or an argument of a block that has a single predecessor.
C19_PropagationEliminatesOnlyAgreedAtomics ==
    [][PropagateStep(ConstantOrSinglePredecessorArg)]_vars

C19_Witness ==
    /\ lir.pc = "propagate_atomics"
    /\ lir.origin = "lowered"
    /\ \E v, w \in DOMAIN lir.f.values :
          /\ lir.f.values[v].kind = Alias(w)
          /\ lir.f.values[w].kind.tag = "Arg"
          /\ \E B \in Live(lir.f) : w \in Range(lir.f.blocks[B].reads)
    /\ lir.f.blocks[block_entry(lir.f)].predecessors = <<>>
    /\ Len(lir.f.blocks[block_entry(lir.f)].arguments) = 3

\* The conditionals on a constant, and the arm the constant selects.
ConstantConditionals(f) ==
    {B \in DOMAIN f.blocks :
        /\ f.blocks[B].op = Some("IfBool")
        /\ f.values[f.blocks[B].reads[3]].kind.tag = "Constant"}

ArmValue(f, B) ==
    IF f.values[f.blocks[B].reads[3]].kind.ref = ConstTrue
    THEN f.blocks[B].reads[1]
    ELSE f.blocks[B].reads[2]

SimplifyStep ==
    lir'.pc = "simplify_branches" =>
        LET f == lir.f
            g == lir'.f
        IN  \A B \in ConstantConditionals(f) :
               LET arm == f.values[ArmValue(f, B)].kind.ref
               IN  /\ g.blocks[B].op = Some("CallControlFlow")
                   /\ g.blocks[B].reads = <<ArmValue(f, B)>>
                   /\ g.blocks[B].successors = <<arm>>
                   /\ B \in Range(g.blocks[arm].predecessors)
                   /\ \A S \in Range(f.blocks[B].successors) \ {arm} :
                         /\ S \notin Range(g.blocks[B].successors)
                         /\ B \notin Range(g.blocks[S].predecessors)

\* C20: branch simplification turns a conditional whose condition is a
\* constant into an unconditional jump; the only successor of the block is
\* then the selected arm, and the block is no longer among the predecessors of
\* the other arms, nor they among its successors.
C20_ConstantBranchFolded == [][SimplifyStep]_vars

C20_Witness ==
    /\ lir.pc = "simplify_branches"
    /\ lir.origin = "lowered"
    /\ LET B == block_entry(lir.f)
       IN  /\ lir.f.blocks[B].op = Some("CallControlFlow")
           /\ Len(lir.f.blocks[B].successors) = 1
           /\ \E S \in DOMAIN lir.f.blocks :
                 /\ S # B
                 /\ lir.f.blocks[S].predecessors = <<>>
                 /\ lir.f.blocks[S].successors # <<>>

----------------------------------------------------------------------------
\* The graph assertions and the predecessor sets of the function under
\* construction.

\* C26 as stated: after every builder call the assertions of
\* graph_validate_block hold for every block of the function, also for a
\* block whose reads hold one block value more than once.
C26_ValidateAssertionsHold == graph_validate_global(fun)

\* C27: B is among the predecessors of S only if S is among the successors
\* of B, after every builder call, the calls that replace the op of B by one
\* that no longer reads S included.
C27_NoStalePredecessor ==
    \A B, S \in Blocks :
        B \in Range(BlockPredecessors_new(fun, S)) => S \in Successors(B)

C27_Witness ==
    /\ last.op = "op_call_flow"
    /\ last.had_op
    /\ \E S \in Range(last.old_successors) :
          /\ S \notin Successors(last.block[1])
          /\ last.block[1] \notin Predecessors(S)
          /\ Predecessors(S) # {}

----------------------------------------------------------------------------
\* The scope stack of the tracker during from_parsed.

\* The identifiers of the binding sites of function n.
OwnIds(n) ==
    {Functions[n].hir_fun.args[k].ssa : k \in 1..Len(Functions[n].hir_fun.args)}
        \cup {Functions[n].hir_fun.body[k].ssa :
                 k \in {m \in 1..Len(Functions[n].hir_fun.body) :
                           Functions[n].hir_fun.body[m].ev = "bind"}}

\* C25: the pushes and the pops of scope frames balance over every function:
\* before and after each turn of the SSA loop the scope stack is empty, and
\* it stays so for the rest of from_parsed; a reference of a function has the
\* identifier of a binding site of that same function.
C25_ScopeStackBalanced ==
    pipe.pc # "idle" =>
        /\ pipe.env.stack = <<>>
        /\ pipe.pc = "extract_lambdas" =>
              \A n \in pipe.i..Len(Functions) :
                  \A k \in 1..Len(Functions[n].hir_fun.body) :
                      Functions[n].hir_fun.body[k].ev = "ref" =>
                          Functions[n].hir_fun.body[k].ssa \in OwnIds(n)

C25_Witness ==
    /\ pipe.pc = "assign_ssa"
    /\ pipe.i = 2
    /\ pipe.env.stack = <<>>
    /\ Len(Functions[1].hir_fun.body) = 9
    /\ Functions[1].hir_fun.body[9].ssa # INVALID_SSA
    /\ pipe.env.next_ssa > 3

----------------------------------------------------------------------------
\* Tail-call promotion and the validator.

\* The returning calls a step rewrote.
Promoted(f, g) ==
    {B \in DOMAIN f.blocks :
        /\ f.blocks[B].op = Some("CallFunction")
        /\ g.blocks[B] # f.blocks[B]}

PromoteStep ==
    lir'.pc = "promote_tail_calls" =>
        LET f == lir.f
            g == lir'.f
            ret == f.blocks[f.entry_block[1]].arguments[1]
        IN  /\ \A B \in Promoted(f, g) :
                  LET reads == f.blocks[B].reads
                      R == f.values[reads[1]].kind.ref
                  IN  /\ f.values[reads[1]].kind.tag = "Block"
                      /\ Len(f.blocks[R].arguments) = 1
                      /\ f.blocks[R].op = Some("CallControlFlow")
                      /\ f.blocks[R].reads = <<ret, f.blocks[R].arguments[1]>>
                      /\ g.blocks[B].op = Some("TailCall")
                      /\ g.blocks[B].reads = SubSeq(reads, 3, Len(reads))
                      /\ Range(neighbors(g, B)) \subseteq Range(f.blocks[B].successors) \ {R}
                      /\ R \notin Live(g)
            /\ \A B \in DOMAIN f.blocks :
                  f.blocks[B].op # Some("CallFunction") =>
                      /\ g.blocks[B].op = f.blocks[B].op
                      /\ g.blocks[B].reads = f.blocks[B].reads
                      /\ g.blocks[B].arguments = f.blocks[B].arguments
                      /\ g.blocks[B].successors = f.blocks[B].successors

\* C21: tail-call promotion rewrites a returning call only if its return
\* continuation is a block with one argument that does nothing but pass that
\* argument to the return continuation of the function; the tail call reads
\* the callee and the arguments of the returning call, in their order, and has
\* the return block no longer among its successors; the return block is then
\* not reachable from the entry; the other blocks keep their op, reads,
\* arguments and successors.
C21_PromotionOnlyOfDegenerateReturn == [][PromoteStep]_vars

C21_Witness ==
    /\ lir.pc = "promote_tail_calls"
    /\ lir.origin = "lowered"
    /\ \E B \in Live(lir.f) :
          /\ lir.f.blocks[B].op = Some("TailCall")
          /\ Len(lir.f.blocks[B].reads) = 2
          /\ lir.f.blocks[B].successors = <<>>
    /\ \E R \in DOMAIN lir.f.blocks :
          /\ R \notin Live(lir.f)
          /\ lir.f.blocks[R].predecessors = <<>>
          /\ Len(lir.f.blocks[R].arguments) = 1

ValidateStep ==
    lir'.pc = "validate" =>
        /\ lir'.f = lir.f
        /\ lir'.dialect = lir.dialect
        /\ lir'.origin = lir.origin
        /\ (lir.pc = "validate" /\ lir.validated[1].dialect = lir'.validated[1].dialect)
              => lir'.validated = lir.validated

----------------------------------------------------------------------------
\* BufferTextFormatter (text/mod.rs).  The buffer is the sequence of its
\* characters.  indent is a usize: its values are kept modulo 2^64, with -1
\* standing for 2^64 - 1, the value a wrapping decrement of 0 gives.

\* Number of calls made on the formatter.
MaxCalls == 6

\* BufferTextFormatter::default, new
BufferTextFormatter_new == [indent |-> 0, buf |-> <<>>]

\* BufferTextFormatter::clear
clear(f) == [indent |-> 0, buf |-> <<>>]

\* TextFormatter::write
write(f, text) == [f EXCEPT !.buf = @ \o text]

Spaces(n) == [i \in 1..n |-> " "]

\* TextFormatter::newline; with an indent of 2^64 - 1 the loop exhausts
\* the memory and the process is aborted.
newline(f) ==
    IF f.indent < 0
    THEN [aborted |-> TRUE, f |-> f]
    ELSE [aborted |-> FALSE, f |-> [f EXCEPT !.buf = @ \o <<"\n">> \o Spaces(f.indent)]]

\* Faulty variant: the indent grows by the distance asked for
enter_indent_by_dist(f, dist) == [f EXCEPT !.indent = @ + dist]

\* TextFormatter::enter_indent
enter_indent(f, dist) == [f EXCEPT !.indent = @ + 1]

\* TextFormatter::exit_indent: at indent 0 the subtraction overflows, which
\* panics in a build with overflow checks and wraps in one without.
exit_indent(f, dist, overflow_checks) ==
    IF f.indent = 0 /\ overflow_checks
    THEN [panicked |-> TRUE, f |-> f]
    ELSE [panicked |-> FALSE, f |-> [f EXCEPT !.indent = @ - 1]]

Texts == {<<>>, <<"a">>}

Dists == {0, 1, 4}

\* A new formatter, in a build with or without overflow checks.  enters and
\* exits count the calls since the formatter was new or cleared; balanced
\* says that at no time since then there were more exits than enters.
InitFmt ==
    /\ BuilderIdle
    /\ PipeIdle
    /\ VmIdle
    /\ LirIdle
    /\ EvlIdle
    /\ PrsIdle
    /\ \E overflow_checks \in BOOLEAN :
          fmt = [pc |-> "ready", f |-> BufferTextFormatter_new,
                 overflow_checks |-> overflow_checks,
                 call |-> <<"new">>, calls |-> 0,
                 enters |-> 0, exits |-> 0, balanced |-> TRUE]

FmtReady == fmt.pc = "ready" /\ fmt.calls < MaxCalls

Write ==
    /\ FmtReady
    /\ \E text \in Texts :
          fmt' = [fmt EXCEPT !.f = write(fmt.f, text),
                             !.call = <<"write", text>>,
                             !.calls = @ + 1]
    /\ UNCHANGED beside_fmt

Newline ==
    /\ FmtReady
    /\ LET r == newline(fmt.f)
       IN  fmt' = [fmt EXCEPT !.pc = IF r.aborted THEN "aborted" ELSE "ready",
                              !.f = r.f,
                              !.call = <<"newline">>,
                              !.calls = @ + 1]
    /\ UNCHANGED beside_fmt

EnterIndent ==
    /\ FmtReady
    /\ \E dist \in Dists :
          fmt' = [fmt EXCEPT !.f = enter_indent(fmt.f, dist),
                             !.call = <<"enter_indent", dist>>,
                             !.calls = @ + 1,
                             !.enters = @ + 1]
    /\ UNCHANGED beside_fmt

ExitIndent ==
    /\ FmtReady
    /\ \E dist \in Dists :
          LET r == exit_indent(fmt.f, dist, fmt.overflow_checks)
          IN  fmt' = [fmt EXCEPT !.pc = IF r.panicked THEN "panicked" ELSE "ready",
                                 !.f = r.f,
                                 !.call = <<"exit_indent", dist>>,
                                 !.calls = @ + 1,
                                 !.exits = @ + 1,
                                 !.balanced = @ /\ fmt.exits + 1 <= fmt.enters]
    /\ UNCHANGED beside_fmt

Clear ==
    /\ FmtReady
    /\ fmt' = [fmt EXCEPT !.f = clear(fmt.f),
                          !.call = <<"clear">>,
                          !.calls = @ + 1,
                          !.enters = 0, !.exits = 0, !.balanced = TRUE]
    /\ UNCHANGED beside_fmt

NextFmt ==
    \/ Write
    \/ Newline
    \/ EnterIndent
    \/ ExitIndent
    \/ Clear

SpecFmt == InitFmt /\ [][NextFmt]_vars

FmtStep ==
    fmt'.calls = fmt.calls + 1 =>
        /\ fmt'.call[1] = "newline" /\ fmt.balanced =>
              /\ fmt'.pc = "ready"
              /\ fmt'.f.buf = fmt.f.buf \o <<"\n">> \o Spaces(fmt.enters - fmt.exits)
              /\ fmt'.f.indent = fmt.f.indent
        /\ fmt'.call[1] = "write" =>
              /\ fmt'.f.buf = fmt.f.buf \o fmt'.call[2]
              /\ fmt'.f.indent = fmt.f.indent
        /\ fmt'.call[1] = "clear" =>
              /\ fmt'.f.indent = 0
              /\ fmt'.f.buf = <<>>
        /\ fmt'.balanced =>
              /\ fmt'.pc = "ready"
              /\ fmt'.f.indent = fmt'.enters - fmt'.exits

\* C30: while no prefix of the calls has more exit_indent than enter_indent,
\* indent is the number of enter_indent calls less the number of exit_indent
\* calls, whatever the dist arguments; newline appends one line break and
\* then exactly indent spaces; write and newline leave indent as it was;
\* clear sets indent to 0 and empties the buffer.
C30_IndentCountsCalls == [][FmtStep]_vars

C30_Witness ==
    /\ fmt.pc = "ready"
    /\ fmt.balanced
    /\ fmt.enters = 3
    /\ fmt.exits = 1
    /\ fmt.call = <<"newline">>
    /\ fmt.f.buf = <<"a", "\n", " ", " ">>

----------------------------------------------------------------------------
\* to_parse_result (parser.rs).  The generated parser hands over the errors
\* it recovered from, in the order it met them, and its result: the tree, or
\* the error that stopped it.

\* Most errors the parser accumulates before it returns.
MaxErrs == 3

\* lalrpop_util::ParseError, by variant
ParseErrors == {"InvalidToken", "UnrecognizedToken", "User"}

Asts == {"module", "expr"}

\* Result::Ok
Result_Ok(x) == [ok |-> TRUE, val |-> x]

\* Result::Err
Result_Err(e) == [ok |-> FALSE, val |-> e]

\* ParserError::from: the ParserError that stands for one ParseError
ParserError_from(e) == <<"ParserError", e>>

\* errs.drain(0..).map(ParserError::from).collect()
drain_collect(errs) == [i \in 1..Len(errs) |-> ParserError_from(errs[i])]

\* Faulty variant: the fatal error is put in front of the accumulated ones
to_parse_result_fatal_first(errs, result) ==
    IF result.ok
    THEN IF Len(errs) > 0 THEN Result_Err(drain_collect(errs)) ELSE Result_Ok(result.val)
    ELSE Result_Err(drain_collect(<<result.val>> \o errs))

\* to_parse_result
to_parse_result(errs, result) ==
    IF result.ok
    THEN IF Len(errs) > 0 THEN Result_Err(drain_collect(errs)) ELSE Result_Ok(result.val)
    ELSE Result_Err(drain_collect(Append(errs, result.val)))

RECURSIVE SeqsUpTo(_, _)
SeqsUpTo(S, n) ==
    IF n = 0 THEN {<<>>}
    ELSE LET shorter == SeqsUpTo(S, n - 1)
         IN  shorter \cup {Append(q, x) : q \in shorter, x \in S}

\* Parse::parse_tokens up to the call of to_parse_result
InitPrs ==
    /\ BuilderIdle
    /\ PipeIdle
    /\ VmIdle
    /\ LirIdle
    /\ FmtIdle
    /\ EvlIdle
    /\ \E errs \in SeqsUpTo(ParseErrors, MaxErrs) :
       \E result \in {Result_Ok(a) : a \in Asts} \cup {Result_Err(e) : e \in ParseErrors} :
          prs = [pc |-> "parsed", errs |-> errs, result |-> result]

ToParseResult ==
    /\ prs.pc = "parsed"
    /\ prs' = [pc |-> "returned", errs |-> prs.errs, result |-> prs.result,
               out |-> to_parse_result(prs.errs, prs.result)]
    /\ UNCHANGED beside_prs

NextPrs == ToParseResult

SpecPrs == InitPrs /\ [][NextPrs]_vars

\* C24: to_parse_result returns Result_Ok(ast) only when the parser result is Ok and
\* no error was accumulated; an Ok parser result with accumulated errors gives
\* Err with exactly those errors in their order; an Err parser result gives
\* Err with the accumulated errors in their order and the fatal error last.
C24_ParseResultCollectsErrors ==
    prs.pc = "returned" =>
        /\ prs.out.ok => (prs.result.ok /\ prs.errs = <<>> /\ prs.out = Result_Ok(prs.result.val))
        /\ (prs.result.ok /\ prs.errs = <<>>) => prs.out.ok
        /\ (prs.result.ok /\ prs.errs # <<>>) =>
              /\ ~prs.out.ok
              /\ Len(prs.out.val) = Len(prs.errs)
              /\ \A i \in 1..Len(prs.errs) : prs.out.val[i] = ParserError_from(prs.errs[i])
        /\ ~prs.result.ok =>
              /\ ~prs.out.ok
              /\ Len(prs.out.val) = Len(prs.errs) + 1
              /\ \A i \in 1..Len(prs.errs) : prs.out.val[i] = ParserError_from(prs.errs[i])
              /\ prs.out.val[Len(prs.out.val)] = ParserError_from(prs.result.val)

C24_Witness ==
    /\ prs.pc = "returned"
    /\ prs.errs = <<"UnrecognizedToken", "InvalidToken">>
    /\ prs.result = Result_Err("User")
    /\ prs.out = Result_Err(<<ParserError_from("UnrecognizedToken"),
                       ParserError_from("InvalidToken"),
                       ParserError_from("User")>>)

----------------------------------------------------------------------------
\* The constant-expression evaluator of the preprocessor (evaluator.rs).
\* Expressions are records by variant; spans and node ids are left out.  A
\* float is the exact fraction n/d in lowest terms with d > 0.

\* Integer literals of the expressions are in -MaxLit..MaxLit.
MaxLit == 2

Literal_Integer(i) == [tag |-> "Integer", v |-> i]

Abs(x) == IF x < 0 THEN -x ELSE x

RECURSIVE Gcd(_, _)
Gcd(a, b) == IF b = 0 THEN a ELSE Gcd(b, a % b)

Literal_Float(n, d) ==
    LET g == Gcd(Abs(n), Abs(d))
        s == IF d < 0 THEN -1 ELSE 1
    IN  [tag |-> "Float", n |-> s * (n \div g), d |-> s * (d \div g)]

Literal_Atom(name) == [tag |-> "Atom", name |-> name]

Expr_Var(name) == [tag |-> "Var", name |-> name]

Expr_Nil == [tag |-> "Nil"]

Expr_Cons(head, tail) == [tag |-> "Cons", head |-> head, tail |-> tail]

Expr_Tuple(elements) == [tag |-> "Tuple", elements |-> elements]

Expr_Begin == [tag |-> "Begin"]

Expr_Apply(callee, args) == [tag |-> "Apply", callee |-> callee, args |-> args]

Expr_BinaryExpr(lhs, op, rhs) == [tag |-> "BinaryExpr", lhs |-> lhs, op |-> op, rhs |-> rhs]

Expr_UnaryExpr(op, operand) == [tag |-> "UnaryExpr", op |-> op, operand |-> operand]

\* A variant eval has no arm for
Expr_If == [tag |-> "If"]

BinaryOps ==
    {"OrElse", "AndAlso", "Or", "And", "Equal", "NotEqual", "StrictEqual",
     "StrictNotEqual", "Lte", "Lt", "Gte", "Gt", "Add", "Sub", "Multiply",
     "Divide", "Div", "Rem", "Bor", "Bxor", "Xor", "Band", "Bsl", "Bsr",
     "Append", "Remove", "Send"}

UnaryOps == {"Plus", "Minus", "Bnot", "Not"}

\* The outcomes of a call: Ok(expr), Err(InvalidConstExpression), a panic,
\* and Ok with an integer too wide for this model, which is followed no
\* further.
Eval_Ok(expr) == [tag |-> "Ok", expr |-> expr]

InvalidConstExpression == [tag |-> "Err"]

Panic == [tag |-> "Panic"]

Wide == [tag |-> "Wide"]

True == Literal_Atom("true")

False == Literal_Atom("false")

Bool(b) == IF b THEN True ELSE False

is_number(e) == e.tag \in {"Integer", "Float"}

is_boolean(e) == e.tag = "Atom" /\ e.name \in {"true", "false"}

is_true(e) == e.tag = "Atom" /\ e.name = "true"

\* builtin
builtin(name) == None

\* Integer::to_float
to_float(x) == Literal_Float(x, 1)

AsFloat(e) == IF e.tag = "Integer" THEN to_float(e.v) ELSE e

Float_lt(x, y) == x.n * y.d < y.n * x.d

\* The order of expressions: numbers by value, other expressions by variant
VariantRank(e) ==
    CASE e.tag = "Var" -> 0
      [] e.tag = "Integer" -> 1
      [] e.tag = "Float" -> 1
      [] e.tag = "Atom" -> 2
      [] e.tag = "Nil" -> 3
      [] e.tag = "Cons" -> 4
      [] e.tag = "Tuple" -> 5
      [] OTHER -> 6

Expr_lt(lhs, rhs) ==
    IF is_number(lhs) /\ is_number(rhs)
    THEN Float_lt(AsFloat(lhs), AsFloat(rhs))
    ELSE VariantRank(lhs) < VariantRank(rhs)

\* Division of integers, truncated towards zero
TruncDiv(x, y) ==
    LET q == Abs(x) \div Abs(y)
    IN  IF (x < 0) = (y < 0) THEN q ELSE -q

TruncRem(x, y) == x - y * TruncDiv(x, y)

\* Bitwise operators on two's complement integers
RECURSIVE BitAnd(_, _), BitOr(_, _), BitXor(_, _)
BitAnd(x, y) ==
    IF x = 0 \/ y = 0 THEN 0
    ELSE IF x = -1 THEN y
    ELSE IF y = -1 THEN x
    ELSE 2 * BitAnd(x \div 2, y \div 2) + (x % 2) * (y % 2)

BitOr(x, y) ==
    IF x = 0 THEN y
    ELSE IF y = 0 THEN x
    ELSE IF x = -1 \/ y = -1 THEN -1
    ELSE 2 * BitOr(x \div 2, y \div 2) + (IF x % 2 = 1 \/ y % 2 = 1 THEN 1 ELSE 0)

BitXor(x, y) ==
    IF x = 0 THEN y
    ELSE IF y = 0 THEN x
    ELSE IF x = -1 THEN -y - 1
    ELSE IF y = -1 THEN -x - 1
    ELSE 2 * BitXor(x \div 2, y \div 2) + (IF x % 2 = y % 2 THEN 0 ELSE 1)

RECURSIVE Pow2(_)
Pow2(n) == IF n = 0 THEN 1 ELSE 2 * Pow2(n - 1)

\* eval_unary_op
eval_unary_op(op, rhs) ==
    CASE op = "Plus" ->
            IF rhs.tag = "Integer" /\ rhs.v < 0 THEN Eval_Ok(Literal_Integer(-rhs.v))
            ELSE IF rhs.tag = "Integer" THEN Eval_Ok(rhs)
            ELSE IF rhs.tag = "Float" /\ rhs.n < 0 THEN Eval_Ok(Literal_Float(-rhs.n, rhs.d))
            ELSE IF rhs.tag = "Float" THEN Eval_Ok(rhs)
            ELSE InvalidConstExpression
      [] op = "Minus" ->
            IF rhs.tag = "Integer" /\ rhs.v > 0 THEN Eval_Ok(Literal_Integer(-rhs.v))
            ELSE IF rhs.tag = "Integer" THEN Eval_Ok(rhs)
            ELSE IF rhs.tag = "Float" /\ rhs.n > 0 THEN Eval_Ok(Literal_Float(-rhs.n, rhs.d))
            ELSE IF rhs.tag = "Float" THEN Eval_Ok(rhs)
            ELSE InvalidConstExpression
      [] op = "Bnot" ->
            IF rhs.tag = "Integer" THEN Eval_Ok(Literal_Integer(-rhs.v - 1))
            ELSE InvalidConstExpression
      [] op = "Not" ->
            IF rhs.tag = "Atom" /\ rhs.name = "true" THEN Eval_Ok(False)
            ELSE IF rhs.tag = "Atom" /\ rhs.name = "false" THEN Eval_Ok(True)
            ELSE InvalidConstExpression

\* eval_boolean
eval_boolean(lhs, op, rhs) ==
    IF ~is_boolean(lhs) \/ ~is_boolean(rhs) THEN InvalidConstExpression
    ELSE LET left == is_true(lhs)
             right == is_true(rhs)
         IN  CASE op = "Xor" -> Eval_Ok(Bool((left # right) /\ (left \/ right)))
               [] op \in {"OrElse", "Or"} -> Eval_Ok(Bool(left \/ right))
               [] op \in {"AndAlso", "And"} -> Eval_Ok(Bool(left /\ right))
               [] OTHER -> Panic

\* eval_numeric_equality; an integer beside a float is made a float first
eval_numeric_equality(lhs, op, rhs) ==
    IF is_number(lhs) /\ is_number(rhs)
    THEN LET same == IF lhs.tag = "Integer" /\ rhs.tag = "Integer"
                     THEN lhs.v = rhs.v
                     ELSE AsFloat(lhs) = AsFloat(rhs)
         IN  CASE op = "Equal" -> Eval_Ok(Bool(same))
               [] op = "NotEqual" -> Eval_Ok(Bool(~same))
               [] OTHER -> Panic
    ELSE InvalidConstExpression

\* eval_equality
eval_equality(lhs, op, rhs) ==
    IF is_number(lhs) /\ is_number(rhs)
    THEN eval_numeric_equality(lhs, op, rhs)
    ELSE CASE op = "Equal" -> Eval_Ok(Bool(lhs = rhs))
           [] op = "NotEqual" -> Eval_Ok(Bool(lhs # rhs))
           [] OTHER -> Panic

\* eval_strict_equality
eval_strict_equality(lhs, op, rhs) ==
    CASE op = "StrictEqual" -> Eval_Ok(Bool(lhs = rhs))
      [] op = "StrictNotEqual" -> Eval_Ok(Bool(lhs # rhs))
      [] OTHER -> Panic

\* eval_comparison
eval_comparison(lhs, op, rhs) ==
    CASE op \in {"Lt", "Lte"} ->
            IF Expr_lt(lhs, rhs) THEN Eval_Ok(True)
            ELSE IF op = "Lte" THEN eval_equality(lhs, "Equal", rhs)
            ELSE Eval_Ok(False)
      [] op \in {"Gt", "Gte"} ->
            IF Expr_lt(rhs, lhs) THEN Eval_Ok(True)
            ELSE IF op = "Gte" THEN eval_equality(lhs, "Equal", rhs)
            ELSE Eval_Ok(False)
      [] OTHER -> Panic

\* eval_op_int; x % y with y = 0 panics (remainder with a divisor of zero)
eval_op_int(x, op, y) ==
    CASE op = "Add" -> Eval_Ok(Literal_Integer(x + y))
      [] op = "Sub" -> Eval_Ok(Literal_Integer(x - y))
      [] op = "Multiply" -> Eval_Ok(Literal_Integer(x * y))
      [] op = "Divide" ->
            IF y = 0 THEN InvalidConstExpression ELSE Eval_Ok(Literal_Float(x, y))
      [] op = "Div" ->
            IF y = 0 THEN InvalidConstExpression ELSE Eval_Ok(Literal_Integer(TruncDiv(x, y)))
      [] op = "Rem" ->
            IF y = 0 THEN Panic ELSE Eval_Ok(Literal_Integer(TruncRem(x, y)))
      [] OTHER -> Panic

\* eval_op_float
eval_op_float(x, op, y) ==
    CASE op = "Add" -> Eval_Ok(Literal_Float(x.n * y.d + y.n * x.d, x.d * y.d))
      [] op = "Sub" -> Eval_Ok(Literal_Float(x.n * y.d - y.n * x.d, x.d * y.d))
      [] op = "Multiply" -> Eval_Ok(Literal_Float(x.n * y.n, x.d * y.d))
      [] op = "Divide" ->
            IF y.n = 0 THEN InvalidConstExpression
            ELSE Eval_Ok(Literal_Float(x.n * y.d, x.d * y.n))
      [] op = "Div" -> InvalidConstExpression
      [] op = "Rem" -> InvalidConstExpression
      [] OTHER -> Panic

\* eval_arith
eval_arith(lhs, op, rhs) ==
    IF is_number(lhs) /\ is_number(rhs)
    THEN IF lhs.tag = "Integer" /\ rhs.tag = "Integer"
         THEN eval_op_int(lhs.v, op, rhs.v)
         ELSE eval_op_float(AsFloat(lhs), op, AsFloat(rhs))
    ELSE InvalidConstExpression

\* x << y and x >> y on i64: a shift count outside 0..63 panics in a build
\* with overflow checks and is taken modulo 64 in one without.
Shift(x, op, y, overflow_checks) ==
    IF y < 0 \/ y > 63
    THEN IF overflow_checks THEN Panic
         ELSE IF op = "Bsr" THEN Eval_Ok(Literal_Integer(IF x < 0 THEN -1 ELSE 0))
         ELSE IF x = 0 THEN Eval_Ok(Literal_Integer(0))
         ELSE Wide
    ELSE IF op = "Bsr" THEN Eval_Ok(Literal_Integer(x \div Pow2(y)))
    ELSE Eval_Ok(Literal_Integer(x * Pow2(y)))

\* eval_shift; the integers of the model are all Integer::Small
eval_shift(lhs, op, rhs, overflow_checks) ==
    IF lhs.tag = "Integer" /\ rhs.tag = "Integer"
    THEN CASE op = "Bor" -> Eval_Ok(Literal_Integer(BitOr(lhs.v, rhs.v)))
           [] op = "Bxor" -> Eval_Ok(Literal_Integer(BitXor(lhs.v, rhs.v)))
           [] op = "Band" -> Eval_Ok(Literal_Integer(BitAnd(lhs.v, rhs.v)))
           [] op \in {"Bsl", "Bsr"} -> Shift(lhs.v, op, rhs.v, overflow_checks)
           [] OTHER -> Panic
    ELSE InvalidConstExpression

\* eval_binary_op
eval_binary_op(lhs, op, rhs, overflow_checks) ==
    CASE op \in {"OrElse", "AndAlso", "Or", "And"} -> eval_boolean(lhs, op, rhs)
      [] op \in {"Equal", "NotEqual"} -> eval_equality(lhs, op, rhs)
      [] op \in {"StrictEqual", "StrictNotEqual"} -> eval_strict_equality(lhs, op, rhs)
      [] op \in {"Lte", "Lt", "Gte", "Gt"} -> eval_comparison(lhs, op, rhs)
      [] op \in {"Add", "Sub", "Multiply", "Divide", "Div", "Rem"} -> eval_arith(lhs, op, rhs)
      [] op \in {"Bor", "Bxor", "Xor", "Band", "Bsl", "Bsr"} ->
            eval_shift(lhs, op, rhs, overflow_checks)
      [] OTHER -> InvalidConstExpression

RECURSIVE eval(_, _), eval_list(_, _), eval_list_reversed(_, _)

\* Faulty variant: the reduced elements come out in the opposite order
eval_list_reversed(exprs, overflow_checks) ==
    IF exprs = <<>> THEN [tag |-> "Ok", list |-> <<>>]
    ELSE LET first == eval(Head(exprs), overflow_checks)
         IN  IF first.tag # "Ok" THEN first
             ELSE LET rest == eval_list_reversed(Tail(exprs), overflow_checks)
                  IN  IF rest.tag # "Ok" THEN rest
                      ELSE [tag |-> "Ok", list |-> Append(rest.list, first.expr)]

\* eval_list: the elements in their order, up to the first that fails
eval_list(exprs, overflow_checks) ==
    IF exprs = <<>> THEN [tag |-> "Ok", list |-> <<>>]
    ELSE LET first == eval(Head(exprs), overflow_checks)
         IN  IF first.tag # "Ok" THEN first
             ELSE LET rest == eval_list(Tail(exprs), overflow_checks)
                  IN  IF rest.tag # "Ok" THEN rest
                      ELSE [tag |-> "Ok", list |-> <<first.expr>> \o rest.list]

\* eval
eval(expr, overflow_checks) ==
    CASE expr.tag \in {"Var", "Integer", "Float", "Atom", "Nil"} -> Eval_Ok(expr)
      [] expr.tag = "Cons" ->
            LET head == eval(expr.head, overflow_checks)
            IN  IF head.tag # "Ok" THEN head
                ELSE LET tail == eval(expr.tail, overflow_checks)
                     IN  IF tail.tag # "Ok" THEN tail
                         ELSE Eval_Ok(Expr_Cons(head.expr, tail.expr))
      [] expr.tag = "Tuple" ->
            LET elements == eval_list(expr.elements, overflow_checks)
            IN  IF elements.tag # "Ok" THEN elements
                ELSE Eval_Ok(Expr_Tuple(elements.list))
      [] expr.tag = "Begin" -> InvalidConstExpression
      [] expr.tag = "Apply" ->
            LET args == eval_list(expr.args, overflow_checks)
            IN  IF args.tag # "Ok" THEN args
                ELSE LET callee == eval(expr.callee, overflow_checks)
                     IN  IF callee.tag # "Ok" THEN callee
                         ELSE IF callee.expr.tag = "Atom"
                              THEN IF builtin(callee.expr.name) = None
                                   THEN InvalidConstExpression
                                   ELSE Panic
                              ELSE InvalidConstExpression
      [] expr.tag = "BinaryExpr" ->
            LET lhs == eval(expr.lhs, overflow_checks)
            IN  IF lhs.tag # "Ok" THEN lhs
                ELSE LET rhs == eval(expr.rhs, overflow_checks)
                     IN  IF rhs.tag # "Ok" THEN rhs
                         ELSE eval_binary_op(lhs.expr, expr.op, rhs.expr, overflow_checks)
      [] expr.tag = "UnaryExpr" ->
            LET operand == eval(expr.operand, overflow_checks)
            IN  IF operand.tag # "Ok" THEN operand
                ELSE eval_unary_op(expr.op, operand.expr)
      [] OTHER -> InvalidConstExpression

\* The expressions eval is given: the leaves, every expression over leaves,
\* and a unary operator or a one-element tuple around one of those.
Leaves ==
    {Literal_Integer(i) : i \in -MaxLit..MaxLit}
        \cup {Literal_Float(1, 2), Literal_Float(-1, 2)}
        \cup {True, False, Literal_Atom("ok"), Expr_Var("X"), Expr_Nil}

Flat ==
    Leaves
        \cup {Expr_BinaryExpr(l, op, r) : l \in Leaves, op \in BinaryOps, r \in Leaves}
        \cup {Expr_UnaryExpr(op, e) : op \in UnaryOps, e \in Leaves}
        \cup {Expr_Tuple(<<l, r>>) : l \in Leaves, r \in Leaves}
        \cup {Expr_Cons(l, r) : l \in Leaves, r \in Leaves}
        \cup {Expr_Apply(c, <<a>>) : c \in Leaves, a \in Leaves}
        \cup {Expr_Begin, Expr_If}

Exprs ==
    Flat
        \cup {Expr_UnaryExpr(op, e) : op \in UnaryOps, e \in Flat}
        \cup {Expr_Tuple(<<e>>) : e \in Flat}
        \cup {Expr_Tuple(<<e, Literal_Integer(0)>>) : e \in Flat}

\* The condition of an -if directive is parsed and about to be evaluated, in
\* a build with or without overflow checks.
InitEvl ==
    /\ BuilderIdle
    /\ PipeIdle
    /\ VmIdle
    /\ LirIdle
    /\ FmtIdle
    /\ PrsIdle
    /\ \E expr \in Exprs, overflow_checks \in BOOLEAN :
          evl = [pc |-> "parsed", expr |-> expr, overflow_checks |-> overflow_checks]

Eval ==
    /\ evl.pc = "parsed"
    /\ evl' = [pc |-> "evaluated", expr |-> evl.expr,
               overflow_checks |-> evl.overflow_checks,
               out |-> eval(evl.expr, evl.overflow_checks)]
    /\ UNCHANGED beside_evl

NextEvl == Eval

SpecEvl == InitEvl /\ [][NextEvl]_vars

\* C23: eval returns Ok with a reduced expression or
\* Err(InvalidConstExpression) for every expression; an expression that
\* cannot be evaluated at compile time, such as xor of two integer literals or
\* of two booleans, rem or div by zero, or a function application, gives the
\* error and never a panic.
C23_EvalNeverPanics ==
    evl.pc = "evaluated" =>
        /\ evl.out.tag # "Panic"
        /\ (/\ evl.expr.tag = "BinaryExpr"
            /\ \/ /\ evl.expr.op = "Xor"
                  /\ evl.expr.lhs.tag = "Integer" /\ evl.expr.rhs.tag = "Integer"
               \/ /\ evl.expr.op = "Xor"
                  /\ is_boolean(evl.expr.lhs) /\ is_boolean(evl.expr.rhs)
               \/ /\ evl.expr.op \in {"Rem", "Div"}
                  /\ evl.expr.lhs.tag = "Integer" /\ evl.expr.rhs = Literal_Integer(0))
              => evl.out = InvalidConstExpression
        /\ evl.expr.tag = "Apply" => evl.out = InvalidConstExpression

\* C28: unary minus on the integer literal i gives the literal -i, unary plus
\* gives i, and unary minus applied twice gives i.
C28_UnaryMinusNegates ==
    (evl.pc = "evaluated" /\ evl.expr.tag = "UnaryExpr") =>
        /\ (evl.expr.op = "Minus" /\ evl.expr.operand.tag = "Integer")
              => evl.out = Eval_Ok(Literal_Integer(-evl.expr.operand.v))
        /\ (evl.expr.op = "Plus" /\ evl.expr.operand.tag = "Integer")
              => evl.out = Eval_Ok(evl.expr.operand)
        /\ (/\ evl.expr.op = "Minus"
            /\ evl.expr.operand.tag = "UnaryExpr"
            /\ evl.expr.operand.op = "Minus"
            /\ evl.expr.operand.operand.tag = "Integer")
              => evl.out = Eval_Ok(evl.expr.operand.operand)

\* C29: eval is idempotent: when eval(e) is Ok(r), eval(r) is Ok(r).
C29_EvalIdempotent ==
    (evl.pc = "evaluated" /\ evl.out.tag = "Ok")
        => eval(evl.out.expr, evl.overflow_checks) = Eval_Ok(evl.out.expr)

C29_Witness ==
    /\ evl.pc = "evaluated"
    /\ evl.expr = Expr_Tuple(<<Expr_BinaryExpr(Literal_Integer(1), "Add", Literal_Integer(2)),
                               Literal_Integer(0)>>)
    /\ evl.out = Eval_Ok(Expr_Tuple(<<Literal_Integer(3), Literal_Integer(0)>>))

====
